---- MODULE Spec2Model ----
(***************************************************************************)
(* Model of the collaboration core of obsidian-cloud:                      *)
(*   lib/collaboration/ws-server.ts   (CollaborationServer)                *)
(*   lib/collaboration/yjs-provider.ts (YjsDocumentProvider,               *)
(*                                      mergeYjsStates, areStatesEqual)    *)
(*   components/collaboration/collaboration-provider.tsx and               *)
(*   app/dashboard/dashboard-client.tsx (the provider's owner)             *)
(* Time is counted in milliseconds.  Timers are urgent: time never passes  *)
(* a due setInterval / setTimeout callback without running it.             *)
(***************************************************************************)
EXTENDS Integers, Sequences, FiniteSets, TLC

(* ------------------------------ bounds --------------------------------- *)
\* number of Yjs client ids that author structs
NumAuthors == 2
\* clocks 0..MaxClock-1 per author
MaxClock == 2
\* number of updates drawn for the merge harness
PoolSize == 2
\* re-applications of an already applied update in the merge harness
MaxReapply == 1
\* events of the environment (a handshake, a client frame, a client close,
\* a socket error, a loadDocumentState call, a time step) per scenario
MaxEventsProto == 3
MaxEventsOrder == 4
MaxEventsPresence == 5
MaxEventsLife == 6

(* -------------------- mergeable document state (Y.Doc) ----------------- *)
Authors == 1..NumAuthors
Structs == Authors \X (0..(MaxClock - 1))
\* a byte that no update decoder accepts
Junk == <<0, 0>>

\* the update of one transaction: consecutive structs of one author, the
\* first of which need not follow what the receiver holds; or no struct
ClockRun(a, from, to) == [i \in 1..(to - from + 1) |-> <<a, from + i - 1>>]
UpdateBytes ==
  {<<>>} \cup {ClockRun(a, from, to) : a \in Authors, from \in 0..(MaxClock - 1),
                                        to \in 0..(MaxClock - 1)}
CorruptBytes == <<Junk>>

Range(s) == {s[i] : i \in 1..Len(s)}

\* new Y.Doc(): nothing integrated, nothing pending
NewDoc == [sv |-> [a \in Authors |-> 0], pending |-> {}]

\* decoding an update throws on corrupt bytes, before the document is touched
Y_throws(bytes) == Junk \in Range(bytes)

\* integrate every struct whose clock is the author's next clock, skip the
\* ones already integrated, keep the rest pending (missing predecessors)
RECURSIVE Integrate(_, _)
Integrate(sv, refs) ==
  IF \E s \in refs : s[2] = sv[s[1]]
  THEN LET s == CHOOSE t \in refs : t[2] = sv[t[1]]
       IN Integrate([sv EXCEPT ![s[1]] = @ + 1], refs \ {s})
  ELSE [sv |-> sv, pending |-> {s \in refs : s[2] > sv[s[1]]}]

\* a merge that forgets structs arriving before their predecessor
Y_applyUpdateNoPending(doc, bytes) ==
  LET r == Integrate(doc.sv, Range(bytes)) IN [sv |-> r.sv, pending |-> {}]

\* a merge that integrates a struct again when it arrives a second time
RECURSIVE IntegrateAgain(_, _)
IntegrateAgain(sv, refs) ==
  IF \E s \in refs : s[2] <= sv[s[1]]
  THEN LET s == CHOOSE t \in refs : t[2] <= sv[t[1]]
       IN IntegrateAgain([sv EXCEPT ![s[1]] = @ + 1], refs \ {s})
  ELSE [sv |-> sv, pending |-> refs]

Y_applyUpdateAgain(doc, bytes) == IntegrateAgain(doc.sv, doc.pending \cup Range(bytes))

\* Y.applyUpdate(doc, bytes) for bytes that decode
Y_applyUpdate(doc, bytes) == Integrate(doc.sv, doc.pending \cup Range(bytes))

\* ascending clocks of one author
RECURSIVE SortClocks(_)
SortClocks(S) ==
  IF S = {} THEN <<>>
  ELSE LET m == CHOOSE x \in S : \A y \in S : x <= y
       IN <<m>> \o SortClocks(S \ {m})

AuthorClocks(doc, a) ==
  (0..(doc.sv[a] - 1)) \cup {s[2] : s \in {t \in doc.pending : t[1] = a}}

EncodeAuthor(doc, a) ==
  LET cs == SortClocks(AuthorClocks(doc, a)) IN [i \in 1..Len(cs) |-> <<a, cs[i]>>]

\* Y.encodeStateAsUpdate(doc): authors in descending order, clocks ascending,
\* pending structs included
RECURSIVE EncodeFrom(_, _)
EncodeFrom(doc, a) ==
  IF a = 0 THEN <<>> ELSE EncodeAuthor(doc, a) \o EncodeFrom(doc, a - 1)

Y_encodeStateAsUpdate(doc) == EncodeFrom(doc, NumAuthors)

(* ------------------ yjs-provider.ts: exported helpers ------------------ *)
mergeYjsStates(state1, state2) ==
  Y_encodeStateAsUpdate(Y_applyUpdate(Y_applyUpdate(NewDoc, state1), state2))

areStatesEqual(state1, state2) ==
  LET snapshot1 == Y_encodeStateAsUpdate(Y_applyUpdate(NewDoc, state1))
      snapshot2 == Y_encodeStateAsUpdate(Y_applyUpdate(NewDoc, state2))
  IN /\ Len(snapshot1) = Len(snapshot2)
     /\ \A i \in 1..Len(snapshot1) : snapshot1[i] = snapshot2[i]

\* Buffer.from(bytes).toString('base64') and Buffer.from(str, 'base64'):
\* a string that is not base64 decodes to bytes no update decoder accepts
GarbageString == <<"str", <<>>>>
\* message.data absent or not a string
NoData == <<"none", <<>>>>
B64Encode(bytes) == <<"b64", bytes>>
B64Decode(str) == IF str[1] = "b64" THEN str[2] ELSE CorruptBytes

\* handleUpdate's merge: base64-decode the payload and apply it
RoomMerge(doc, data) == Y_applyUpdate(doc, B64Decode(data))
\* YjsDocumentProvider.applyUpdate / loadInitialState
ProviderApply(doc, bytes) == Y_applyUpdate(doc, bytes)

(* ------------------------------ constants ------------------------------ *)
PRESENCE_TIMEOUT == 5000
SWEEP_INTERVAL == 1000
ROOM_GRACE == 60000
CLOSE_NO_DOCUMENT == 4000
CLOSE_TIMEOUT == 4001

(* ----------------------- JavaScript Map helpers ----------------------- *)
\* a Map is a sequence of <<key, value>> in insertion order
MapKeys(m) == {m[i][1] : i \in 1..Len(m)}
MapValues(m) == {m[i][2] : i \in 1..Len(m)}
MapSet(m, k, v) ==
  IF k \in MapKeys(m)
  THEN [i \in 1..Len(m) |-> IF m[i][1] = k THEN <<k, v>> ELSE m[i]]
  ELSE Append(m, <<k, v>>)
MapDeleteKey(m, k) == SelectSeq(m, LAMBDA e : e[1] # k)

(* ------------------------------ messages ------------------------------- *)
NoMsg == [type |-> "", action |-> "", userId |-> "", userName |-> "",
          userColor |-> "", cursor |-> <<>>, data |-> NoData, list |-> <<>>,
          src |-> 0, n |-> 0]
SyncMsg(state) == [NoMsg EXCEPT !.type = "sync", !.data = B64Encode(state)]
\* a presence update that does not say whom it is about
PresenceMsgAnonymous(action, userId, list) ==
  [NoMsg EXCEPT !.type = "awareness", !.action = action, !.list = list]
PresenceMsg(action, userId, list) ==
  [NoMsg EXCEPT !.type = "awareness", !.action = action, !.userId = userId,
                !.list = list]
CursorMsg(c) ==
  [NoMsg EXCEPT !.type = "cursor", !.userId = c.userId, !.userName = c.userName,
                !.userColor = c.userColor, !.cursor = c.cursor]

\* frames a client may put on its socket
SendData == {B64Encode(<<<<1, 0>>>>), B64Encode(CorruptBytes), GarbageString, NoData}
ClientMsgs ==
  {[NoMsg EXCEPT !.type = "update", !.data = d] : d \in SendData}
  \cup {[NoMsg EXCEPT !.type = "awareness", !.userName = "Bob"],
        [NoMsg EXCEPT !.type = "cursor", !.cursor = <<1, 2>>],
        [NoMsg EXCEPT !.type = "sync"]}
Frame(t, m) == [t |-> t, m |-> m]
ClientFrames == {Frame("msg", m) : m \in ClientMsgs} \cup {Frame("bad", NoMsg)}

(* ------------------------------- state --------------------------------- *)
VARIABLES
  now,          \* Date.now()
  nextSweep,    \* next firing of presenceCleanupInterval
  rooms,        \* this.rooms: documentId -> room object (0: no entry)
  roomObjs,     \* room objects ever created; the index is the doc's guid
  conn,         \* the ClientConnection object created for each socket
  clientToRoom, \* this.clientToRoom
  readyState,   \* ws.readyState of every socket
  closeCode,    \* code of the close frame the server sent on a socket
  timers,       \* pending room-destroy setTimeout callbacks, in arming order
  inq,          \* frames sent by a client, not yet handled by the server
  outbox,       \* messages the server sent on a socket, not yet processed
                \* by the client
  replica,      \* the client's local document
  observed,     \* <<sender socket, frame number>> of every update a client
                \* has been delivered, in order
  sentCount,    \* frames a client has sent so far
  loads,        \* loadDocumentState calls so far
  events,       \* events of the environment so far
  logged,       \* what handleMessage has written to the console so far
  listening,    \* this.wss accepts connections and the sweep interval runs
  cfg,          \* scenario limits (events, inputs offered, clients that do not read)
  pool, base, orderA, orderB, repA, repB, reapplied,  \* merge harness
  lifecycle,         \* of the YjsDocumentProvider: created, started, destroyed
  wsProvider,        \* this.wsProvider: "null" or "live"
  wsState,           \* the socket of the WebsocketProvider
  isConnected,       \* this.state.isConnected
  reconnectAttempts, \* this.reconnectAttempts
  reconnectTimeout,  \* this.reconnectTimeout: "null" or "handle"
  reconnectTimers,   \* pending setTimeout callbacks of handleDisconnect
  connectionStatus,  \* the status the caller holds (onStatusChange)
  callbacks,         \* events handed to the caller during the last step
  console,           \* lines logged during the last step
  retries,           \* retries scheduled since the last connected status
  ydoc,              \* this.ydoc, the replica the editor is bound to
  initialState,      \* the persisted state the dashboard loaded on opening
  isOnline,          \* the dashboard's isOnline
  instances,         \* providers the component has created so far
  localEdits,        \* structs the editor has written since the opening
  pendingChangesCount, \* the component's count of updates made while not connected
  wasOfflineRef,     \* useOfflineQueue: wasOfflineRef.current
  pendingCount,      \* useOfflineQueue: pendingUpdatesRef.current.length
  isSyncing,         \* useOfflineQueue: queueState.isSyncing
  syncError,         \* useOfflineQueue: queueState.syncError ("" for null)
  syncTimeout,       \* useOfflineQueue: the settle timer is pending
  updateListeners,   \* listeners of the document's 'update' event that call onUpdate
  lastSnapshotTimes, \* collaboration.ts: documentId -> time of the last snapshot (0: no entry)
  saveCalls,         \* calls of saveYjsStateWithSnapshot that await saveYjsState
  dbWrites,          \* the writes of yjsState the database has carried out
  offlineQueueRef,   \* dashboard: offlineQueueRef.current
  queueRun,          \* dashboard: the items a running processOfflineQueue has yet to save
  persisted,         \* the queued items updateDocument has saved
  everQueued,        \* the items put on the offline queue so far
  toasts,            \* titles of the toasts shown so far
  request,           \* middleware: pathname and session of the request
  response           \* middleware: what was returned for it, and by which file

serverVars == <<now, nextSweep, rooms, roomObjs, conn, clientToRoom, readyState,
                closeCode, timers, loads, events, logged, listening>>
netVars == <<inq, outbox, replica, observed, sentCount>>
harnessVars == <<pool, base, orderA, orderB, repA, repB, reapplied>>
providerVars == <<lifecycle, wsProvider, wsState, isConnected, reconnectAttempts,
                  reconnectTimeout, reconnectTimers, connectionStatus, callbacks,
                  console, retries, ydoc, initialState, isOnline, instances,
                  localEdits, pendingChangesCount, wasOfflineRef, pendingCount,
                  isSyncing, syncError, syncTimeout, updateListeners>>
queueVars == <<pendingChangesCount, wasOfflineRef, pendingCount, isSyncing,
               syncError, syncTimeout>>
appVars == <<lastSnapshotTimes, saveCalls, dbWrites, offlineQueueRef, queueRun,
             persisted, everQueued, toasts, request, response>>
vars == <<serverVars, netVars, cfg, harnessVars, providerVars, appVars>>

Max2(a, b) == IF a >= b THEN a ELSE b
\* every handshake is an event, so no scenario opens more sockets than this
Sockets == 1..Max2(Max2(MaxEventsProto, MaxEventsOrder),
                   Max2(MaxEventsPresence, MaxEventsLife))
DocIds == {"d1", "d2"}
NoDocumentId == ""
Users == {"u1", "u2"}
NoUserId == ""
\* room and heard are bookkeeping: the room object the handlers of the socket
\* close over, and when the socket's last 'message' event was
NoConn == [userId |-> "", userName |-> "", userColor |-> "", lastSeen |-> 0,
           cursor |-> <<>>, room |-> 0, heard |-> 0]

InitServer ==
  /\ now = 0
  /\ listening = TRUE
  /\ nextSweep = SWEEP_INTERVAL
  /\ rooms = [d \in DocIds |-> 0]
  /\ roomObjs = <<>>
  /\ conn = [w \in Sockets |-> NoConn]
  /\ clientToRoom = [w \in Sockets |-> NoDocumentId]
  /\ readyState = [w \in Sockets |-> "NEW"]
  /\ closeCode = [w \in Sockets |-> 0]
  /\ timers = <<>>
  /\ loads = 0
  /\ events = 0
  /\ logged = {}
  /\ inq = [w \in Sockets |-> <<>>]
  /\ outbox = [w \in Sockets |-> <<>>]
  /\ observed = [w \in Sockets |-> <<>>]
  /\ replica = [w \in Sockets |-> NewDoc]
  /\ sentCount = [w \in Sockets |-> 0]

\* a provider after its constructor; the caller's status starts at connecting
InitYjsProvider ==
  /\ lifecycle = "created"
  /\ wsProvider = "null"
  /\ wsState = "none"
  /\ isConnected = FALSE
  /\ reconnectAttempts = 0
  /\ reconnectTimeout = "null"
  /\ reconnectTimers = <<>>
  /\ connectionStatus = "connecting"
  /\ callbacks = <<>>
  /\ console = <<>>
  /\ retries = 0
  /\ ydoc = NewDoc
  /\ isOnline = TRUE
  /\ instances = 1
  /\ localEdits = {}
  /\ pendingChangesCount = 0
  /\ wasOfflineRef = FALSE
  /\ pendingCount = 0
  /\ isSyncing = FALSE
  /\ syncError = ""
  /\ syncTimeout = FALSE
  /\ updateListeners = 0

InitApp ==
  /\ lastSnapshotTimes = [d \in DocIds |-> 0]
  /\ saveCalls = {}
  /\ dbWrites = <<>>
  /\ offlineQueueRef = <<>>
  /\ queueRun = [active |-> FALSE, queue |-> <<>>]
  /\ persisted = {}
  /\ everQueued = {}
  /\ toasts = <<>>
  /\ request = [pathname |-> <<>>, isLoggedIn |-> FALSE]
  /\ response = [by |-> "none", shouldRedirect |-> FALSE, redirectTo |-> <<>>]

InitHarnessIdle ==
  /\ pool = {} /\ base = <<>> /\ orderA = <<>> /\ orderB = <<>>
  /\ repA = NewDoc /\ repB = NewDoc /\ reapplied = 0

(* ------------------------ CollaborationServer -------------------------- *)
Colors == {"#FF6B6B"}
generateClientId(ws) == "client_" \o ToString(ws)

\* emptySince is bookkeeping for the properties: when clients last became empty
NewRoom(d) == [documentId |-> d, doc |-> NewDoc, destroyed |-> FALSE,
               clients |-> <<>>, lastActivity |-> now, emptySince |-> now]

\* a lookup that never finds the registered room
getOrCreateRoomAlways(d) ==
  [g |-> Len(roomObjs) + 1, objs |-> Append(roomObjs, NewRoom(d))]
\* getOrCreateRoom(documentId): the registered room, or a new one that is
\* registered; g is the room object, objs the room objects afterwards
getOrCreateRoom(d) ==
  IF rooms[d] = 0
  THEN [g |-> Len(roomObjs) + 1, objs |-> Append(roomObjs, NewRoom(d))]
  ELSE [g |-> rooms[d], objs |-> roomObjs]

\* getPresenceList(room), for a clients map cl and connection objects cn
getPresenceList(cl, cn) ==
  [i \in 1..Len(cl) |->
     [userId |-> cn[cl[i][2]].userId, userName |-> cn[cl[i][2]].userName,
      userColor |-> cn[cl[i][2]].userColor, cursor |-> cn[cl[i][2]].cursor]]

\* room.clients.forEach(client => if OPEN then client.ws.send(msg))
SendToAll(ob, cl, rs, msg) ==
  [w \in Sockets |->
     IF w \in MapValues(cl) /\ rs[w] = "OPEN" THEN Append(ob[w], msg) ELSE ob[w]]

\* room.clients.forEach((other, userId) => if userId # sender's and OPEN, send)
SendToOthers(ob, cl, rs, senderId, msg) ==
  [w \in Sockets |->
     IF (\E i \in 1..Len(cl) : cl[i][2] = w /\ cl[i][1] # senderId) /\ rs[w] = "OPEN"
     THEN Append(ob[w], msg) ELSE ob[w]]

\* broadcastPresence(room, userId, action)
broadcastPresence(ob, cl, cn, rs, userId, action) ==
  SendToAll(ob, cl, rs, PresenceMsg(action, userId, getPresenceList(cl, cn)))

\* ws.close(code): starts the closing handshake on an open socket
WsClose(rs, w) == [rs EXCEPT ![w] = IF @ = "OPEN" THEN "CLOSING" ELSE @]
WsCloseCode(cc, rs, w, code) == [cc EXCEPT ![w] = IF rs[w] = "OPEN" THEN code ELSE @]

\* every server-to-client message has been processed by its client, but for
\* the clients that have stopped reading
AllDelivered == \A w \in Sockets \ cfg.slow : outbox[w] = <<>>
\* the environment may still act in this scenario
MayAct == events < cfg.maxEvents

\* an initial sync that sends the presence list before the document
sendInitialSyncListFirst(ob, ws, doc, cl, cn) ==
  [ob EXCEPT ![ws] = @ \o <<PresenceMsg("", "", getPresenceList(cl, cn)),
                            SyncMsg(Y_encodeStateAsUpdate(doc))>>]
\* sendInitialSync(ws, room), for a room with document doc and clients cl
sendInitialSync(ob, ws, doc, cl, cn) ==
  [ob EXCEPT ![ws] = @ \o <<SyncMsg(Y_encodeStateAsUpdate(doc)),
                            PresenceMsg("", "", getPresenceList(cl, cn))>>]

\* a refusal that closes without a code
RefuseHandshakeNoCode(cc, w) == cc
\* ws.close(4000, 'Document ID required')
RefuseHandshake(cc, w) == [cc EXCEPT ![w] = CLOSE_NO_DOCUMENT]

\* wss.on('connection'): handshake, then handleConnection
Connect(ws, d, u, color) ==
  /\ UNCHANGED <<cfg, appVars, harnessVars, providerVars, logged, listening>>
  /\ AllDelivered
  /\ MayAct
  /\ events' = events + 1
  /\ listening
  /\ readyState[ws] = "NEW"
  \* sockets are taken in order, and the first named participant is "u1":
  \* the handlers treat all sockets and all participant ids alike
  /\ \A w \in Sockets : w < ws => readyState[w] # "NEW"
  /\ ws = 1 => u # "u2"
  /\ IF d = NoDocumentId
     THEN /\ readyState' = [readyState EXCEPT ![ws] = "CLOSING"]
          /\ closeCode' = RefuseHandshake(closeCode, ws)
          /\ UNCHANGED <<now, nextSweep, rooms, roomObjs, conn, clientToRoom,
                         timers, loads, netVars>>
     ELSE LET userId == IF u = NoUserId THEN generateClientId(ws) ELSE u
              g == getOrCreateRoom(d).g
              objs == getOrCreateRoom(d).objs
              client == [userId |-> userId, userName |-> "Anonymous",
                         userColor |-> color, lastSeen |-> now, cursor |-> <<>>,
                         room |-> g, heard |-> now]
              cl == MapSet(objs[g].clients, userId, ws)
              cn == [conn EXCEPT ![ws] = client]
              rs == [readyState EXCEPT ![ws] = "OPEN"]
              ob1 == sendInitialSync(outbox, ws, objs[g].doc, cl, cn)
          IN /\ rooms' = [rooms EXCEPT ![d] = g]
             /\ roomObjs' = [objs EXCEPT ![g].clients = cl]
             /\ conn' = cn
             /\ clientToRoom' = [clientToRoom EXCEPT ![ws] = d]
             /\ readyState' = rs
             /\ outbox' = broadcastPresence(ob1, cl, cn, rs, userId, "join")
             /\ UNCHANGED <<now, nextSweep, closeCode, timers, loads, inq,
                            replica, observed, sentCount>>

\* the frame the next 'message' event of a socket carries
NextFrameNewest(q) == q[Len(q)]
NextFrame(q) == Head(q)
RestFrames(q, f) ==
  LET i == CHOOSE j \in 1..Len(q) : q[j] = f
  IN SubSeq(q, 1, i - 1) \o SubSeq(q, i + 1, Len(q))

\* what handleUpdate does with a parsed update message: "skip" (no string
\* payload), "throw" (Y.applyUpdate rejects the bytes) or "merge"
UpdateOutcome(m) ==
  IF m.data[1] = "none" THEN "skip"
  ELSE IF Y_throws(B64Decode(m.data)) THEN "throw" ELSE "merge"

\* a handleUpdate that sends the message on before applying it
ForwardsUpdateUnchecked(m) == UpdateOutcome(m) # "skip"
\* the forEach of handleUpdate is reached only when Y.applyUpdate returned
ForwardsUpdate(m) == UpdateOutcome(m) = "merge"

\* a switch that takes every unknown type for a cursor message
DispatchUnknownAsCursor(m) ==
  IF m.type \in {"update", "awareness"} THEN m.type ELSE "cursor"
\* switch (message.type)
Dispatch(m) ==
  IF m.type \in {"update", "awareness", "cursor"} THEN m.type ELSE "default"

\* console lines of handleMessage: the catch, for a frame that is not JSON
\* and for an update that does not apply; the default case of the switch
ParseErrorLine == "Error handling message: SyntaxError"
UpdateErrorLine == "Error handling message: update"
UnknownTypeLine == "Unknown message type"

\* ws.on('message') -> handleMessage(ws, room, client, data); the close frame
\* of the peer is taken from the same ordered stream
ServerMessage(ws) ==
  /\ UNCHANGED <<cfg, appVars, harnessVars, providerVars, listening>>
  /\ AllDelivered
  /\ inq[ws] # <<>>
  /\ readyState[ws] \in {"OPEN", "CLOSING"}
  /\ conn[ws] # NoConn
  /\ LET f == NextFrame(inq[ws])
         m == f.m
         g == conn[ws].room
         room == roomObjs[g]
         seen == [conn EXCEPT ![ws].lastSeen = now, ![ws].heard = now]
         active == [roomObjs EXCEPT ![g].lastActivity = now]
     IN /\ inq' = [inq EXCEPT ![ws] = RestFrames(@, f)]
        /\ UNCHANGED <<now, nextSweep, rooms, clientToRoom, closeCode, timers,
                       loads, events, replica, observed, sentCount>>
        /\ CASE f.t = "close" ->
                  /\ readyState' = WsClose(readyState, ws)
                  /\ UNCHANGED <<roomObjs, conn, outbox, logged>>
             [] f.t = "bad" ->
                  \* JSON.parse throws before lastSeen is touched
                  /\ logged' = logged \cup {ParseErrorLine}
                  /\ conn' = [conn EXCEPT ![ws].heard = now]
                  /\ UNCHANGED <<roomObjs, outbox, readyState>>
             [] f.t = "msg" /\ Dispatch(m) = "update" ->
                  /\ conn' = seen
                  /\ readyState' = readyState
                  /\ roomObjs' = IF UpdateOutcome(m) = "merge"
                                 THEN [active EXCEPT ![g].doc = RoomMerge(@, m.data)]
                                 ELSE active
                  /\ outbox' = IF ForwardsUpdate(m)
                               THEN SendToOthers(outbox, room.clients, readyState,
                                                 conn[ws].userId, m)
                               ELSE outbox
                  /\ logged' = IF UpdateOutcome(m) = "throw"
                               THEN logged \cup {UpdateErrorLine} ELSE logged
             [] f.t = "msg" /\ Dispatch(m) = "awareness" ->
                  LET cn == [seen EXCEPT
                               ![ws].userName = IF m.userName # "" THEN m.userName ELSE @,
                               ![ws].userColor = IF m.userColor # "" THEN m.userColor ELSE @]
                  IN /\ conn' = cn
                     /\ roomObjs' = active
                     /\ readyState' = readyState
                     /\ outbox' = broadcastPresence(outbox, room.clients, cn, readyState,
                                                    conn[ws].userId, "awareness")
                     /\ logged' = logged
             [] f.t = "msg" /\ Dispatch(m) = "cursor" ->
                  LET cn == [seen EXCEPT ![ws].cursor = m.cursor]
                  IN /\ conn' = cn
                     /\ roomObjs' = active
                     /\ readyState' = readyState
                     /\ outbox' = SendToOthers(outbox, room.clients, readyState,
                                               conn[ws].userId, CursorMsg(cn[ws]))
                     /\ logged' = logged
             [] OTHER ->
                  /\ conn' = seen
                  /\ roomObjs' = active
                  /\ logged' = logged \cup {UnknownTypeLine}
                  /\ UNCHANGED <<outbox, readyState>>

Emptied(room, cl) ==
  IF Len(cl) = 0 /\ Len(room.clients) > 0 THEN now ELSE room.emptySince

\* handleDisconnection(ws, room, userId), with the socket states rs at the
\* time the handler runs
handleDisconnection(ws, rs) ==
  LET g == conn[ws].room
      userId == conn[ws].userId
      cl == MapDeleteKey(roomObjs[g].clients, userId)
  IN /\ roomObjs' = [roomObjs EXCEPT ![g].clients = cl,
                                      ![g].emptySince = Emptied(roomObjs[g], cl)]
     /\ clientToRoom' = [clientToRoom EXCEPT ![ws] = NoDocumentId]
     /\ outbox' = broadcastPresence(outbox, cl, conn, rs, userId, "leave")
     /\ timers' = IF Len(cl) = 0
                  THEN Append(timers, [room |-> g, due |-> now + ROOM_GRACE,
                                       done |-> FALSE])
                  ELSE timers

\* ws.on('error'): the socket fails; its 'close' event follows later
ErrorEvent(ws) ==
  /\ UNCHANGED <<cfg, appVars, harnessVars, providerVars, logged, listening>>
  /\ AllDelivered
  /\ MayAct
  /\ events' = events + 1
  /\ readyState[ws] = "OPEN"
  /\ conn[ws] # NoConn
  /\ readyState' = [readyState EXCEPT ![ws] = "CLOSING"]
  /\ inq' = [inq EXCEPT ![ws] = <<>>]
  /\ handleDisconnection(ws, readyState')
  /\ UNCHANGED <<now, nextSweep, rooms, conn, closeCode, loads, replica,
                 observed, sentCount>>

\* ws.on('close'): the closing handshake (or the failed socket) is finished.
\* Nothing refers to the socket's connection object or to its client after
\* the handler has run, so both are forgotten.
CloseEvent(ws) ==
  /\ UNCHANGED <<cfg, appVars, harnessVars, providerVars, logged, listening>>
  /\ AllDelivered
  /\ readyState[ws] = "CLOSING"
  /\ readyState' = [readyState EXCEPT ![ws] = "CLOSED"]
  /\ inq' = [inq EXCEPT ![ws] = <<>>]
  /\ IF conn[ws] # NoConn
     THEN handleDisconnection(ws, readyState')
     ELSE UNCHANGED <<roomObjs, clientToRoom, outbox, timers>>
  /\ conn' = [conn EXCEPT ![ws] = NoConn]
  /\ replica' = [replica EXCEPT ![ws] = NewDoc]
  /\ observed' = [observed EXCEPT ![ws] = <<>>]
  /\ sentCount' = [sentCount EXCEPT ![ws] = 0]
  /\ UNCHANGED <<now, nextSweep, rooms, closeCode, loads, events>>

\* now - client.lastSeen > PRESENCE_TIMEOUT, with a wrong threshold
IsStaleLate(c) == now - c.lastSeen > PRESENCE_TIMEOUT + SWEEP_INTERVAL
\* now - client.lastSeen > PRESENCE_TIMEOUT
IsStale(c) == now - c.lastSeen > PRESENCE_TIMEOUT

\* the inner forEach of cleanupStalePresence over the entries of one room
RECURSIVE SweepClients(_, _, _)
SweepClients(st, todo, g) ==
  IF todo = <<>> THEN st
  ELSE LET userId == Head(todo)[1]
           w == Head(todo)[2]
       IN IF IsStale(conn[w])
          THEN LET cl == MapDeleteKey(st.objs[g].clients, userId)
                   rs == WsClose(st.rs, w)
               IN SweepClients(
                    [objs |-> [st.objs EXCEPT ![g].clients = cl,
                                              ![g].emptySince = Emptied(st.objs[g], cl)],
                     rs |-> rs,
                     cc |-> WsCloseCode(st.cc, st.rs, w, CLOSE_TIMEOUT),
                     c2r |-> [st.c2r EXCEPT ![w] = NoDocumentId],
                     ob |-> broadcastPresence(st.ob, cl, conn, rs, userId, "leave"),
                     evicted |-> st.evicted \cup {w}],
                    Tail(todo), g)
          ELSE SweepClients(st, Tail(todo), g)

\* the outer forEach over this.rooms
RECURSIVE SweepRooms(_, _)
SweepRooms(st, gs) ==
  IF gs = {} THEN st
  ELSE LET g == CHOOSE x \in gs : \A y \in gs : x <= y
       IN SweepRooms(SweepClients(st, st.objs[g].clients, g), gs \ {g})

Registered == {rooms[d] : d \in DocIds} \ {0}

\* setInterval(() => this.cleanupStalePresence(), 1000)
Sweep ==
  /\ UNCHANGED <<cfg, appVars, harnessVars, providerVars, logged, listening>>
  /\ AllDelivered
  /\ listening
  /\ now = nextSweep
  /\ LET st == SweepRooms([objs |-> roomObjs, rs |-> readyState, cc |-> closeCode,
                           c2r |-> clientToRoom, ob |-> outbox, evicted |-> {}],
                          Registered)
     IN /\ roomObjs' = st.objs
        /\ readyState' = st.rs
        /\ closeCode' = st.cc
        /\ clientToRoom' = st.c2r
        /\ outbox' = st.ob
  /\ nextSweep' = nextSweep + SWEEP_INTERVAL
  /\ UNCHANGED <<now, rooms, conn, timers, loads, events, inq, replica,
                 observed, sentCount>>

\* room.doc.guid: the random uuid of the room's Y.Doc
docGuid(g) == "uuid-" \o ToString(g)
\* the key the destroy timer should have used
TimerKeyDocumentId(g) == roomObjs[g].documentId
\* the key the destroy timer looks up and deletes
TimerKey(g) == docGuid(g)

\* this.rooms.get(key)
RoomsGet(key) == IF key \in DocIds THEN rooms[key] ELSE 0

\* a destroy that does not look at the room's clients
DestroyTargetAnyway(g) == rooms[roomObjs[g].documentId]
\* the room the timer armed for room g destroys when it fires (0: none)
DestroyTarget(g) ==
  LET currentRoom == RoomsGet(TimerKey(g))
  IN IF currentRoom # 0 /\ Len(roomObjs[currentRoom].clients) = 0
     THEN currentRoom ELSE 0

\* the callbacks that have not run yet; done ones are kept as a record
PendingTimers == {i \in 1..Len(timers) : ~timers[i].done}

\* the setTimeout callback armed by handleDisconnection
TimerFire ==
  /\ UNCHANGED <<cfg, appVars, harnessVars, providerVars, logged, listening>>
  /\ AllDelivered
  /\ \E i \in PendingTimers :
       /\ timers[i].due = now
       /\ \A j \in PendingTimers : i <= j
       /\ LET g == timers[i].room
              target == DestroyTarget(g)
          IN IF target # 0
             THEN /\ roomObjs' = [roomObjs EXCEPT ![target].destroyed = TRUE]
                  /\ rooms' = [d \in DocIds |-> IF rooms[d] = target THEN 0 ELSE rooms[d]]
             ELSE UNCHANGED <<roomObjs, rooms>>
       /\ timers' = [timers EXCEPT ![i].done = TRUE]
  /\ UNCHANGED <<now, nextSweep, conn, clientToRoom, readyState, closeCode, loads,
                 events, netVars>>

\* the interval firings from nextSweep on that lie before time t
SweepsBefore(t) ==
  IF t <= nextSweep THEN {}
  ELSE {nextSweep + k * SWEEP_INTERVAL : k \in 0..((t - 1 - nextSweep) \div SWEEP_INTERVAL)}
\* a firing of cleanupStalePresence at time x would find nobody to evict
SweepIdleAt(x) ==
  \A g \in Registered : \A i \in 1..Len(roomObjs[g].clients) :
     x - conn[roomObjs[g].clients[i][2]].lastSeen <= PRESENCE_TIMEOUT

TickDeltas == {1, SWEEP_INTERVAL - 1, PRESENCE_TIMEOUT, ROOM_GRACE - 1, ROOM_GRACE}

\* time passes by d ms.  It never passes a due destroy timer, nor an interval
\* firing that would evict somebody; interval firings that find nothing to
\* evict change nothing and are run as part of the step.
Tick(d) ==
  /\ UNCHANGED <<cfg, appVars, harnessVars, providerVars, logged, listening>>
  /\ AllDelivered
  /\ d \in cfg.deltas
  /\ MayAct
  /\ now < nextSweep
  /\ \A i \in PendingTimers : now < timers[i].due /\ now + d <= timers[i].due
  /\ \A x \in SweepsBefore(now + d) : SweepIdleAt(x)
  /\ now' = now + d
  /\ events' = events + 1
  /\ nextSweep' = nextSweep + SWEEP_INTERVAL * Cardinality(SweepsBefore(now + d))
  /\ UNCHANGED <<rooms, roomObjs, conn, clientToRoom, readyState,
                 closeCode, timers, loads, netVars>>

\* loadDocumentState(documentId, state)
LoadBytes == {<<<<2, 0>>>>, CorruptBytes}
LoadDocumentState(d, bytes) ==
  /\ UNCHANGED <<cfg, appVars, harnessVars, providerVars, logged, listening>>
  /\ AllDelivered
  /\ MayAct
  /\ events' = events + 1
  /\ loads' = loads + 1
  /\ LET g == getOrCreateRoom(d).g
         objs == getOrCreateRoom(d).objs
     IN /\ rooms' = [rooms EXCEPT ![d] = g]
        /\ roomObjs' = IF Y_throws(bytes) THEN objs
                       ELSE [objs EXCEPT ![g].doc = Y_applyUpdate(@, bytes)]
  /\ UNCHANGED <<now, nextSweep, conn, clientToRoom, readyState, closeCode, timers,
                 netVars>>

(* ------------------------------ clients -------------------------------- *)
HasCloseFrame(q) == \E i \in 1..Len(q) : q[i].t = "close"

\* the client side of the socket still accepts writes
CanSend(ws) ==
  /\ conn[ws] # NoConn
  /\ ~HasCloseFrame(inq[ws])
  /\ \/ readyState[ws] = "OPEN"
     \/ readyState[ws] = "CLOSING" /\ closeCode[ws] = CLOSE_TIMEOUT

\* a client writes one frame; an update it can decode is its own local edit.
\* The server takes frames one at a time, so a frame is put on the wire when
\* no other socket has frames waiting: every order in which the server can
\* handle the frames of different sockets is still produced.
ClientSend(ws, f) ==
  /\ UNCHANGED <<cfg, appVars, harnessVars, providerVars, logged, listening>>
  /\ AllDelivered
  /\ CanSend(ws)
  /\ \A w \in Sockets \ {ws} : inq[w] = <<>>
  /\ MayAct
  /\ events' = events + 1
  /\ sentCount' = [sentCount EXCEPT ![ws] = @ + 1]
  /\ inq' = [inq EXCEPT ![ws] =
               Append(@, [f EXCEPT !.m.src = ws, !.m.n = sentCount[ws] + 1])]
  /\ replica' = IF f.t = "msg" /\ f.m.type = "update" /\ UpdateOutcome(f.m) = "merge"
                THEN [replica EXCEPT ![ws] = Y_applyUpdate(@, B64Decode(f.m.data))]
                ELSE replica
  /\ UNCHANGED <<now, nextSweep, rooms, roomObjs, conn, clientToRoom, readyState,
                 closeCode, timers, loads, outbox, observed>>

\* a client closes its socket: the close frame follows the frames already sent
ClientClose(ws) ==
  /\ UNCHANGED <<cfg, appVars, harnessVars, providerVars, logged, listening>>
  /\ AllDelivered
  /\ \A w \in Sockets \ {ws} : inq[w] = <<>>
  /\ conn[ws] # NoConn
  /\ readyState[ws] = "OPEN"
  /\ ~HasCloseFrame(inq[ws])
  /\ MayAct
  /\ events' = events + 1
  /\ inq' = [inq EXCEPT ![ws] = Append(@, Frame("close", NoMsg))]
  /\ UNCHANGED <<now, nextSweep, rooms, roomObjs, conn, clientToRoom, readyState,
                 closeCode, timers, loads, outbox, replica, observed, sentCount>>

\* a client processes the next message the server sent it: sync and update
\* payloads are merged into its replica
ClientDeliver(ws) ==
  /\ UNCHANGED <<cfg, appVars, harnessVars, providerVars, logged, listening>>
  /\ outbox[ws] # <<>>
  /\ ws \notin cfg.slow
  /\ \A w \in Sockets \ cfg.slow : w < ws => outbox[w] = <<>>
  /\ LET m == Head(outbox[ws])
     IN /\ replica' = IF m.type \in {"sync", "update"} /\ UpdateOutcome(m) = "merge"
                      THEN [replica EXCEPT ![ws] = Y_applyUpdate(@, B64Decode(m.data))]
                      ELSE replica
        /\ observed' = IF m.type = "update"
                       THEN [observed EXCEPT ![ws] = Append(@, <<m.src, m.n>>)]
                       ELSE observed
  /\ outbox' = [outbox EXCEPT ![ws] = Tail(@)]
  /\ UNCHANGED <<serverVars, inq, sentCount>>

\* sockets and their clients
NextSockets ==
  \/ \E ws \in Sockets : \E d \in cfg.docs : \E u \in cfg.users : \E c \in Colors :
       Connect(ws, d, u, c)
  \/ \E ws \in Sockets : ServerMessage(ws)
  \/ \E ws \in Sockets : ErrorEvent(ws)
  \/ \E ws \in Sockets : CloseEvent(ws)
  \/ \E ws \in Sockets : \E f \in cfg.frames : ClientSend(ws, f)
  \/ \E ws \in Sockets : ClientClose(ws)
  \/ \E ws \in Sockets : ClientDeliver(ws)

\* the server between two firings of its timers
NextProto ==
  \/ NextSockets
  \/ \E d \in DocIds : \E b \in LoadBytes : LoadDocumentState(d, b)

\* sockets and the two kinds of timer
NextLife ==
  \/ NextSockets
  \/ Sweep
  \/ TimerFire
  \/ \E d \in TickDeltas : Tick(d)

Next ==
  \/ NextProto
  \/ Sweep
  \/ TimerFire
  \/ \E d \in TickDeltas : Tick(d)

UpdateMsg(bytes) == [NoMsg EXCEPT !.type = "update", !.data = B64Encode(bytes)]

\* protocol scenarios: every kind of frame, two documents, duplicate and
\* generated ids, a refused handshake
InitProto ==
  /\ InitServer
  /\ InitYjsProvider
  /\ InitApp
  /\ initialState = <<>>
  /\ InitHarnessIdle
  /\ cfg = [slow |-> {}, maxEvents |-> MaxEventsProto, deltas |-> {},
            docs |-> DocIds \cup {NoDocumentId}, users |-> Users \cup {NoUserId},
            frames |-> ClientFrames]

\* ordering scenarios: updates of one room, valid and corrupt
InitOrder ==
  /\ InitServer
  /\ InitYjsProvider
  /\ InitApp
  /\ initialState = <<>>
  /\ InitHarnessIdle
  /\ cfg = [slow |-> {}, maxEvents |-> MaxEventsOrder, deltas |-> {},
            docs |-> {"d1"}, users |-> Users,
            frames |-> {Frame("msg", UpdateMsg(<<<<1, 0>>>>)),
                        Frame("msg", UpdateMsg(<<<<1, 1>>>>)),
                        Frame("msg", UpdateMsg(CorruptBytes))}]

\* presence scenarios: time steps around the presence timeout
InitPresence ==
  /\ InitServer
  /\ InitYjsProvider
  /\ InitApp
  /\ initialState = <<>>
  /\ InitHarnessIdle
  /\ cfg = [slow |-> {}, maxEvents |-> MaxEventsPresence,
            deltas |-> {1, SWEEP_INTERVAL - 1, PRESENCE_TIMEOUT},
            docs |-> {"d1"}, users |-> Users,
            frames |-> {Frame("msg", UpdateMsg(<<<<1, 0>>>>))}]

\* room-lifetime scenarios: time steps around the grace period
InitLife ==
  /\ InitServer
  /\ InitYjsProvider
  /\ InitApp
  /\ initialState = <<>>
  /\ InitHarnessIdle
  /\ cfg = [slow |-> {}, maxEvents |-> MaxEventsLife,
            deltas |-> {1, ROOM_GRACE - 1, ROOM_GRACE},
            docs |-> {"d1"}, users |-> {"u1"},
            frames |-> {Frame("msg", UpdateMsg(<<<<1, 0>>>>))}]

\* presence scenarios stay short of the grace period: no destroy timer is due
NextPresence ==
  \/ NextSockets
  \/ Sweep
  \/ \E d \in TickDeltas : Tick(d)

SpecOrder == InitOrder /\ [][NextProto]_vars
SpecPresence == InitPresence /\ [][NextPresence]_vars
SpecProto == InitProto /\ [][NextProto]_vars
SpecLife == InitLife /\ [][NextLife]_vars
Spec == InitLife /\ [][Next]_vars

(* -------------------------- merge harness ------------------------------ *)
\* Replica A is a room document fed by update messages (handleUpdate);
\* replica B is a provider document fed through applyUpdate.  Both start
\* from the same persisted state (loadDocumentState / loadInitialState).
\* A applies the drawn updates in any order, then B does, then either
\* replica is given an update it already holds.
BaseStates == {<<>>, <<<<1, 0>>>>}
\* the empty update is covered as a persisted state
Pools == {P \in SUBSET (UpdateBytes \ {<<>>}) : Cardinality(P) <= PoolSize}


InitMerge ==
  /\ InitServer
  /\ InitYjsProvider
  /\ InitApp
  /\ initialState = <<>>
  /\ cfg = [slow |-> {}, maxEvents |-> 0, deltas |-> {}, docs |-> {}, users |-> {}, frames |-> {}]
  /\ pool \in Pools
  /\ base \in BaseStates
  /\ orderA = <<>> /\ orderB = <<>>
  /\ repA = RoomMerge(NewDoc, B64Encode(base))
  /\ repB = ProviderApply(NewDoc, base)
  /\ reapplied = 0

ApplyA(u) ==
  /\ u \in pool \ Range(orderA)
  /\ orderB = <<>>
  /\ repA' = RoomMerge(repA, B64Encode(u))
  /\ orderA' = Append(orderA, u)
  /\ UNCHANGED <<serverVars, netVars, providerVars, cfg, appVars, pool, base, orderB, repB, reapplied>>

ApplyB(u) ==
  /\ u \in pool \ Range(orderB)
  /\ repB' = ProviderApply(repB, u)
  /\ orderB' = Append(orderB, u)
  /\ UNCHANGED <<serverVars, netVars, providerVars, cfg, appVars, pool, base, orderA, repA, reapplied>>

\* the same update delivered a second time to the room document
ReapplyA(u) ==
  /\ u \in Range(orderA)
  /\ Range(orderA) = pool /\ Range(orderB) = pool
  /\ reapplied < MaxReapply
  /\ repA' = RoomMerge(repA, B64Encode(u))
  /\ reapplied' = reapplied + 1
  /\ UNCHANGED <<serverVars, netVars, providerVars, cfg, appVars, pool, base, orderA, orderB, repB>>

\* the same update given a second time to applyUpdate / loadInitialState
ReapplyB(u) ==
  /\ u \in Range(orderB) \cup {base}
  /\ Range(orderA) = pool /\ Range(orderB) = pool
  /\ reapplied < MaxReapply
  /\ repB' = ProviderApply(repB, u)
  /\ reapplied' = reapplied + 1
  /\ UNCHANGED <<serverVars, netVars, providerVars, cfg, appVars, pool, base, orderA, orderB, repA>>

NextMerge ==
  \/ \E u \in UpdateBytes : ApplyA(u)
  \/ \E u \in UpdateBytes : ApplyB(u)
  \/ \E u \in UpdateBytes : ReapplyA(u)
  \/ \E u \in UpdateBytes : ReapplyB(u)

SpecMerge == InitMerge /\ [][NextMerge]_vars

\* C1 (convergence): once two replicas that started from the same state have
\* each applied every update of the same set, in whatever two orders, their
\* encoded states are equal; and mergeYjsStates gives the same bytes for
\* both argument orders.
C1_Convergence ==
  /\ (Range(orderA) = pool /\ Range(orderB) = pool) =>
        /\ Y_encodeStateAsUpdate(repA) = Y_encodeStateAsUpdate(repB)
        /\ areStatesEqual(Y_encodeStateAsUpdate(repA), Y_encodeStateAsUpdate(repB))
  /\ (orderA = <<>> /\ orderB = <<>>) =>
        \A x \in pool : \A y \in pool : mergeYjsStates(x, y) = mergeYjsStates(y, x)

\* both replicas are complete, took different orders, and one of them saw a
\* struct before its predecessor
C1_Witness ==
  /\ Cardinality(pool) = PoolSize
  /\ Range(orderA) = pool /\ Range(orderB) = pool
  /\ orderA # orderB
  /\ \E i \in 1..Len(orderA) : \E j \in 1..Len(orderA) :
        /\ i < j
        /\ \E s \in Range(orderA[i]) : \E t \in Range(orderA[j]) :
              s[1] = t[1] /\ t[2] < s[2] /\ s[2] < repA.sv[s[1]]

\* C2 (idempotence): applying an update a second time to a replica leaves
\* its encoded state as it was after the first application.
C2_Idempotence ==
  [][(reapplied' = reapplied + 1) =>
       /\ Y_encodeStateAsUpdate(repA') = Y_encodeStateAsUpdate(repA)
       /\ Y_encodeStateAsUpdate(repB') = Y_encodeStateAsUpdate(repB)]_vars

\* an update that carries structs has been applied a second time to a
\* replica that holds it
C2_Witness ==
  /\ reapplied > 0
  /\ pool # {} /\ base # <<>>
  /\ \E a \in Authors : repA.sv[a] > 0 /\ repB.sv[a] > 0

(* ------------------------- protocol properties ------------------------- *)
\* the server handles the oldest waiting frame of socket S in this step
Handles(S) ==
  /\ inq[S] # <<>>
  /\ conn[S] # NoConn
  /\ Len(inq'[S]) = Len(inq[S]) - 1
  /\ readyState' = readyState
\* ... and that frame is an update whose bytes merge
MergesUpdate(S) ==
  /\ Handles(S)
  /\ Head(inq[S]).t = "msg"
  /\ Head(inq[S]).m.type = "update"
  /\ UpdateOutcome(Head(inq[S]).m) = "merge"
InRoom(w, g) == w \in MapValues(roomObjs[g].clients)

\* C3 (fan-out): when an update from sender S is merged into a room, the
\* message as received is sent once to every other connection registered in
\* that room whose socket is open, and to nobody else (not S, not a
\* connection of another room).
C3_FanOut ==
  [][\A S \in Sockets : MergesUpdate(S) =>
       \A w \in Sockets :
          outbox'[w] = IF w # S /\ InRoom(w, conn[S].room) /\ readyState[w] = "OPEN"
                       THEN <<Head(inq[S]).m>> ELSE <<>>]_vars

\* C4 (per-sender ordering): a client is delivered the updates of one sender
\* in the order the sender wrote them, and every other participant (another
\* participant id) registered with an open socket is sent each merged update.
C4_OrderInv ==
  \A w \in Sockets : \A i \in 1..Len(observed[w]) : \A j \in 1..Len(observed[w]) :
     (i < j /\ observed[w][i][1] = observed[w][j][1]) => observed[w][i][2] < observed[w][j][2]
C4_SentToParticipants ==
  \A S \in Sockets : MergesUpdate(S) =>
     \A w \in Sockets :
        (/\ InRoom(w, conn[S].room) /\ readyState[w] = "OPEN"
         /\ conn[w].userId # conn[S].userId)
        => \E k \in 1..Len(outbox'[w]) :
              /\ outbox'[w][k].src = S
              /\ outbox'[w][k].n = Head(inq[S]).m.n
              /\ outbox'[w][k].data = Head(inq[S]).m.data
C4_Ordering == [](C4_OrderInv) /\ [][C4_SentToParticipants]_vars

\* a participant has been delivered two updates of the same sender
C4_Witness ==
  \E w \in Sockets : \E i \in 1..Len(observed[w]) : \E j \in 1..Len(observed[w]) :
     /\ i < j
     /\ observed[w][i][1] = observed[w][j][1]
     /\ observed[w][i][1] # w

\* nothing is in flight to or from the room g, nor to socket B
Quiescent(g, B) ==
  /\ outbox[B] = <<>>
  /\ \A w \in Sockets : conn[w].room = g => inq[w] = <<>>

\* C5 (end-to-end sync): for a client B registered in a room with an open
\* socket, once the frames other clients wrote and the messages sent to B
\* are delivered, B's replica encodes to the same state as the room document
\* (no state having been injected with loadDocumentState).
C5_EndToEnd ==
  \A B \in Sockets :
     (/\ conn[B] # NoConn
      /\ readyState[B] = "OPEN"
      /\ InRoom(B, conn[B].room)
      /\ loads = 0
      /\ Quiescent(conn[B].room, B))
     => Y_encodeStateAsUpdate(replica[B]) = Y_encodeStateAsUpdate(roomObjs[conn[B].room].doc)

(* ------------------------- presence properties ------------------------- *)
\* C6 (presence timeout): a registered connection silent for more than
\* PRESENCE_TIMEOUT is gone by the next interval firing, which comes no later
\* than SWEEP_INTERVAL after the threshold was crossed.
C6_PresenceTimeout ==
  \A g \in Registered : \A i \in 1..Len(roomObjs[g].clients) :
     LET c == conn[roomObjs[g].clients[i][2]]
     IN (now - c.lastSeen > PRESENCE_TIMEOUT) =>
          /\ now <= nextSweep
          /\ nextSweep <= c.lastSeen + PRESENCE_TIMEOUT + SWEEP_INTERVAL

\* a connection silent for exactly timeout + interval has just been evicted
C6_Witness ==
  \E w \in Sockets :
     /\ conn[w] # NoConn
     /\ closeCode[w] = CLOSE_TIMEOUT
     /\ now - conn[w].lastSeen = PRESENCE_TIMEOUT + SWEEP_INTERVAL
     /\ \A g \in Registered : ~InRoom(w, g)
     /\ nextSweep > now

\* C7 (leave broadcast): whenever entries leave a room's clients map, every
\* connection that remains with an open socket is sent, for each departed
\* entry in turn, a leave presence update naming its participant id whose
\* list is one entry shorter than before that departure.
C7_LeaveBroadcast ==
  [][\A g \in 1..Len(roomObjs) :
       LET old == roomObjs[g].clients
           new == roomObjs'[g].clients
           gone == SelectSeq(old, LAMBDA e : e[1] \notin MapKeys(new))
       IN (Len(new) < Len(old)) =>
            \A i \in 1..Len(new) :
               readyState'[new[i][2]] = "OPEN" =>
                 LET ob == outbox'[new[i][2]]
                 IN /\ Len(ob) = Len(gone)
                    /\ \A j \in 1..Len(gone) :
                         /\ ob[j].type = "awareness"
                         /\ ob[j].action = "leave"
                         /\ ob[j].userId = gone[j][1]
                         /\ Len(ob[j].list) = Len(old) - j]_vars

\* a remaining member holds the leave update of a member the sweeper evicted
C7_Witness ==
  \E w \in Sockets : \E v \in Sockets :
     /\ w # v
     /\ readyState[w] = "OPEN"
     /\ InRoom(w, conn[w].room)
     /\ closeCode[v] = CLOSE_TIMEOUT /\ readyState[v] = "CLOSING"
     /\ outbox[w] # <<>>
     /\ Head(outbox[w]).action = "leave"
     /\ Head(outbox[w]).userId = conn[v].userId
     /\ Len(Head(outbox[w]).list) = 1

(* ----------------------- room lifetime properties ---------------------- *)
\* the destroy timer i runs in this step
Fires(i) == i \in 1..Len(timers) /\ ~timers[i].done /\ timers'[i].done
RoomOf(i) == timers[i].room
IsRegistered(g) == rooms[roomObjs[g].documentId] = g
StaysRegistered(g) == rooms'[roomObjs[g].documentId] = g

\* C8 (room destruction): when the grace timer fires for a room that has had
\* no connection for ROOM_GRACE, the room's document is released and the
\* room is removed from the registry.
C8_RoomDestroyed ==
  [][\A i \in 1..Len(timers) :
       (/\ Fires(i)
        /\ Len(roomObjs[RoomOf(i)].clients) = 0
        /\ now - roomObjs[RoomOf(i)].emptySince >= ROOM_GRACE)
       => /\ ~StaysRegistered(RoomOf(i))
          /\ roomObjs'[RoomOf(i)].destroyed]_vars

\* C9 (a join saves the room): a grace timer never destroys or unregisters a
\* room that has a connection, and when a connection joined after the timer
\* was armed the room survives the timer with its document state intact.
C9_JoinSavesRoom ==
  [][\A i \in 1..Len(timers) : Fires(i) =>
       /\ \A g \in 1..Len(roomObjs) :
            Len(roomObjs[g].clients) > 0 =>
              /\ roomObjs'[g].destroyed = roomObjs[g].destroyed
              /\ IsRegistered(g) => StaysRegistered(g)
       /\ LET g == RoomOf(i)
          IN (Len(roomObjs[g].clients) > 0
              \/ roomObjs[g].emptySince > timers[i].due - ROOM_GRACE)
             => /\ roomObjs'[g] = roomObjs[g]
                /\ IsRegistered(g) => StaysRegistered(g)]_vars

\* the timer armed by a departure has run while a connection that joined
\* 59999 ms after that departure is registered, and the room is still there
C9_Witness ==
  \E i \in 1..Len(timers) : \E w \in Sockets :
     /\ timers[i].done /\ timers[i].due = now
     /\ InRoom(w, timers[i].room)
     /\ conn[w].lastSeen = timers[i].due - 1
     /\ IsRegistered(timers[i].room)
     /\ ~roomObjs[timers[i].room].destroyed

\* C10 (only after the grace period): a grace timer removes a room from the
\* registry only if the room has had no connection for the last ROOM_GRACE.
C10_OnlyAfterGrace ==
  [][\A i \in 1..Len(timers) : Fires(i) =>
       \A g \in 1..Len(roomObjs) :
          (IsRegistered(g) /\ ~StaysRegistered(g)) =>
             /\ Len(roomObjs[g].clients) = 0
             /\ now - roomObjs[g].emptySince >= ROOM_GRACE]_vars

\* members left, rejoined and left again: the first of two timers has run
\* while the room had been empty for less than the grace period, the second
\* is still pending, and the room is still registered
C10_Witness ==
  \E i \in 1..Len(timers) : \E j \in 1..Len(timers) :
     /\ timers[i].done /\ timers[i].due = now
     /\ ~timers[j].done /\ timers[j].room = timers[i].room
     /\ Len(roomObjs[timers[i].room].clients) = 0
     /\ roomObjs[timers[i].room].emptySince > timers[i].due - ROOM_GRACE
     /\ IsRegistered(timers[i].room)

(* ------------------------- registry properties ------------------------- *)
IsConnected(w) == conn[w] # NoConn /\ readyState[w] \in {"OPEN", "CLOSING"}
DocOf(w) == roomObjs[conn[w].room].documentId

\* C11 (registry uniqueness): no two room objects are created for one
\* document id, every connection's room is the room registered for its
\* document id, so connections to the same id share one document; and a
\* connect or loadDocumentState for a registered id creates no room.
C11_OneRoomInv ==
  /\ \A g \in 1..Len(roomObjs) : \A h \in 1..Len(roomObjs) :
        roomObjs[g].documentId = roomObjs[h].documentId => g = h
  /\ \A w \in Sockets : IsConnected(w) => rooms[DocOf(w)] = conn[w].room
  /\ \A w \in Sockets : \A v \in Sockets :
        (IsConnected(w) /\ IsConnected(v) /\ DocOf(w) = DocOf(v))
        => roomObjs[conn[w].room].doc = roomObjs[conn[v].room].doc
C11_ReturnsExisting ==
  \A d \in DocIds : rooms[d] # 0 =>
     /\ rooms'[d] = rooms[d]
     /\ \A g \in (Len(roomObjs) + 1)..Len(roomObjs') : roomObjs'[g].documentId # d
C11_RegistryUnique == [](C11_OneRoomInv) /\ [][C11_ReturnsExisting]_vars

\* two connections joined one document id around a loadDocumentState call
\* for it, and share the room that holds the loaded state
C11_Witness ==
  \E w \in Sockets : \E v \in Sockets :
     /\ w # v /\ IsConnected(w) /\ IsConnected(v)
     /\ conn[w].room = conn[v].room
     /\ loads > 0
     /\ roomObjs[conn[w].room].doc # NewDoc

(* ---------------------- per-message fault paths ------------------------ *)
\* the server takes the next frame of socket S, which is not a close frame
TakesFrame(S) ==
  /\ inq[S] # <<>>
  /\ conn[S] # NoConn
  /\ inq'[S] = Tail(inq[S])
  /\ events' = events /\ sentCount' = sentCount
  /\ Head(inq[S]).t # "close"
\* ... an update whose bytes Y.applyUpdate rejects
TakesFailingUpdate(S) ==
  /\ TakesFrame(S)
  /\ Head(inq[S]).t = "msg"
  /\ Head(inq[S]).m.type = "update"
  /\ Head(inq[S]).m.data[1] # "none"
  /\ Y_throws(B64Decode(Head(inq[S]).m.data))
\* ... a frame that is not JSON, or a message of a type the server does not know
TakesUnusable(S) ==
  /\ TakesFrame(S)
  /\ \/ Head(inq[S]).t = "bad"
     \/ Head(inq[S]).m.type \notin {"update", "awareness", "cursor"}

\* no room gains, loses or changes a document or a member, no socket changes
\* state, nothing is sent, no timer is armed
RoomsUntouched ==
  /\ rooms' = rooms
  /\ Len(roomObjs') = Len(roomObjs)
  /\ \A g \in 1..Len(roomObjs) :
        /\ roomObjs'[g].doc = roomObjs[g].doc
        /\ roomObjs'[g].destroyed = roomObjs[g].destroyed
        /\ roomObjs'[g].clients = roomObjs[g].clients
  /\ clientToRoom' = clientToRoom
  /\ timers' = timers
NothingSent == outbox' = outbox
StaysConnected(S) ==
  /\ readyState' = readyState
  /\ closeCode' = closeCode
  /\ conn'[S] # NoConn
  /\ conn'[S].room = conn[S].room
  /\ conn'[S].userId = conn[S].userId

\* C17 (failed update): when the bytes of an update do not apply, the update
\* is sent to nobody, every room document is what it was, and the sender
\* stays registered on an open socket; and after such a failure the server
\* still takes the next frame of any registered connection.
C17_FailureContained ==
  \A S \in Sockets : TakesFailingUpdate(S) =>
     NothingSent /\ RoomsUntouched /\ StaysConnected(S)
C17_StillServes ==
  \A S \in Sockets :
     (/\ UpdateErrorLine \in logged
      /\ conn[S] # NoConn
      /\ readyState[S] = "OPEN"
      /\ inq[S] # <<>>
      /\ AllDelivered)
     => ENABLED ServerMessage(S)
C17_UpdateFailure == [](C17_StillServes) /\ [][C17_FailureContained]_vars
\* S's first update failed and was sent to nobody; its second was merged
\* and delivered to B, who was in the room before S
C17_Witness ==
  \E S \in Sockets : \E B \in Sockets :
     /\ B < S
     /\ UpdateErrorLine \in logged
     /\ IsConnected(S) /\ IsConnected(B)
     /\ readyState[S] = "OPEN" /\ readyState[B] = "OPEN"
     /\ conn[S].room = conn[B].room
     /\ conn[S].userId # conn[B].userId
     /\ sentCount[S] = 2 /\ sentCount[B] = 0
     /\ inq[S] = <<>>
     /\ observed[B] = << <<S, 2>> >>
     /\ roomObjs[conn[S].room].doc # NewDoc

\* C18 (unusable message): a frame that is not JSON, or a message of an
\* unknown type, is dropped: the sender stays registered on its open socket,
\* every room document is what it was, and nothing is sent to anybody.
C18_Dropped ==
  [][\A S \in Sockets : TakesUnusable(S) =>
        NothingSent /\ RoomsUntouched /\ StaysConnected(S)]_vars
\* S's only frame has been dropped; S is still there, next to a participant
\* B who was sent nothing
C18_Witness ==
  \E S \in Sockets : \E B \in Sockets :
     /\ B < S
     /\ logged \in {{ParseErrorLine}, {UnknownTypeLine}}
     /\ readyState[S] = "OPEN" /\ readyState[B] = "OPEN"
     /\ conn[S] # NoConn /\ conn[B] # NoConn
     /\ conn[S].room = conn[B].room
     /\ InRoom(S, conn[S].room) /\ InRoom(B, conn[S].room)
     /\ sentCount[S] = 1 /\ sentCount[B] = 0
     /\ inq[S] = <<>>
     /\ outbox[B] = <<>>
     /\ roomObjs[conn[S].room].doc = NewDoc

\* a handshake on socket w
Handshake(w) == readyState[w] = "NEW" /\ readyState'[w] # "NEW"
Refused(w) ==
  /\ readyState'[w] = "CLOSING"
  /\ closeCode'[w] = CLOSE_NO_DOCUMENT
  /\ conn' = conn
  /\ roomObjs' = roomObjs
  /\ RoomsUntouched
  /\ NothingSent
  /\ logged' = logged /\ loads' = loads
Admitted(w) ==
  /\ readyState'[w] = "OPEN"
  /\ closeCode'[w] = 0
  /\ clientToRoom'[w] \in DocIds
  /\ conn'[w] # NoConn
  /\ rooms'[clientToRoom'[w]] = conn'[w].room

\* C19 (missing document id): a handshake that names no document is closed
\* with code 4000 and does nothing else -- no room is created, no connection
\* registered, no presence sent; every other handshake registers the
\* connection under the document it names.
C19_Refusal ==
  [][\A w \in Sockets : Handshake(w) =>
        IF clientToRoom'[w] = NoDocumentId THEN Refused(w) ELSE Admitted(w)]_vars
\* a refused socket next to a room with a registered participant
C19_Witness ==
  \E w \in Sockets : \E v \in Sockets :
     /\ closeCode[w] = CLOSE_NO_DOCUMENT
     /\ readyState[w] \in {"CLOSING", "CLOSED"}
     /\ conn[w] = NoConn
     /\ v < w
     /\ IsConnected(v)
     /\ outbox[v] = <<>>

(* ------------------------- YjsDocumentProvider ------------------------- *)
\* The provider as CollaborationProvider drives it: created, loadInitialState,
\* connect(), the status events of its WebsocketProvider, its reconnect
\* timers, destroy(); and the dashboard around it, whose onUpdate callback
\* changes with isOnline.  The WebsocketProvider is a library: an attempt it
\* makes (on construction or on connect()) is announced as connecting and
\* ends open or failed, an open socket may close, and both a failure and a
\* close are announced as disconnected.
maxReconnectAttempts == 10
BASE_DELAY == 1000
MAX_DELAY == 30000
\* providers one opening of a document may go through
MaxInstances == 2

RECURSIVE Pow2(_)
Pow2(n) == IF n = 0 THEN 1 ELSE 2 * Pow2(n - 1)
Min2(a, b) == IF a <= b THEN a ELSE b

\* a delay that is never capped
ReconnectDelayUncapped(attempts) == BASE_DELAY * Pow2(attempts)
\* Math.min(1000 * Math.pow(2, this.reconnectAttempts), 30000)
ReconnectDelay(attempts) == Min2(BASE_DELAY * Pow2(attempts), MAX_DELAY)

\* a ceiling that lets one more retry through
CeilingReachedLate(attempts) == attempts > maxReconnectAttempts
CeilingReached(attempts) == attempts >= maxReconnectAttempts

\* a counter that starts over with every status but disconnected
ResetsAttemptsEarly(status) == status # "disconnected"
ResetsAttempts(status) == status = "connected"

StatusReport(status) == [event |-> "onStatusChange", arg |-> status]
UpdateReport == [event |-> "onUpdate", arg |-> "update"]
MaxAttemptsLine == "Max reconnection attempts reached"

\* the timers left pending, none of them the one this.reconnectTimeout names
Unheld(ts) == [i \in 1..Len(ts) |-> [ts[i] EXCEPT !.held = FALSE]]

\* ts: the timers pending when the handler runs
handleDisconnect(ts) ==
  IF CeilingReached(reconnectAttempts)
  THEN /\ console' = <<MaxAttemptsLine>>
       /\ reconnectTimers' = ts
       /\ UNCHANGED <<reconnectAttempts, reconnectTimeout, retries>>
  ELSE /\ console' = <<>>
       /\ reconnectAttempts' = reconnectAttempts + 1
       /\ reconnectTimeout' = "handle"
       /\ reconnectTimers' =
            Append(Unheld(ts),
                   [delay |-> ReconnectDelay(reconnectAttempts), held |-> TRUE])
       /\ retries' = Min2(retries + 1, maxReconnectAttempts + 1)

SETTLE_WINDOW == 1000

\* the component's isOffline: setIsOffline(status === 'disconnected')
isOffline == connectionStatus = "disconnected"

\* useOfflineQueue's effect on [connectionStatus, isOffline], run after the
\* render that follows a change of the status: the cleanup of the previous
\* run clears its settle timer; then either the settle timer is armed, or
\* wasOfflineRef takes the value of isOffline
OfflineQueueEffect(status) ==
  IF status = connectionStatus
  THEN UNCHANGED <<wasOfflineRef, isSyncing, syncTimeout>>
  ELSE IF wasOfflineRef /\ status = "connected"
  THEN /\ isSyncing' = TRUE
       /\ syncTimeout' = TRUE
       /\ UNCHANGED wasOfflineRef
  ELSE /\ wasOfflineRef' = (status = "disconnected")
       /\ syncTimeout' = FALSE
       /\ UNCHANGED isSyncing

\* the listener of the WebsocketProvider's 'status' event, and the caller's
\* onStatusChange
StatusHandler(status, ts) ==
  /\ isConnected' = (status = "connected")
  /\ connectionStatus' = status
  /\ callbacks' = <<StatusReport(status)>>
  /\ pendingChangesCount' = IF status = "connected" THEN 0 ELSE pendingChangesCount
  /\ OfflineQueueEffect(status)
  /\ UNCHANGED <<pendingCount, syncError>>
  /\ IF ResetsAttempts(status)
     THEN /\ reconnectAttempts' = 0
          /\ retries' = IF status = "connected" THEN 0 ELSE retries
          /\ console' = <<>>
          /\ reconnectTimers' = ts
          /\ UNCHANGED reconnectTimeout
     ELSE IF status = "disconnected"
     THEN handleDisconnect(ts)
     ELSE /\ console' = <<>>
          /\ reconnectTimers' = ts
          /\ UNCHANGED <<reconnectAttempts, reconnectTimeout, retries>>

\* a connect() that does not announce the attempt
ConnectReportsSilent(throws) ==
  IF throws THEN <<StatusReport("disconnected")>> ELSE <<>>
\* what connect() hands to onStatusChange
ConnectReports(throws) ==
  IF throws THEN <<StatusReport("connecting"), StatusReport("disconnected")>>
  ELSE <<StatusReport("connecting")>>

\* the component's effect: loadInitialState(initialState) on the new
\* provider's document, then connect(), whose WebsocketProvider constructor
\* may throw
MountEffect(throws) ==
  /\ ydoc' = ProviderApply(NewDoc, initialState)
  /\ lifecycle' = "started"
  /\ console' = <<>>
  /\ reconnectAttempts' = 0
  /\ retries' = 0
  /\ isConnected' = FALSE
  /\ callbacks' = ConnectReports(throws)
  /\ connectionStatus' = IF callbacks' = <<>> THEN connectionStatus
                         ELSE callbacks'[Len(callbacks')].arg
  /\ OfflineQueueEffect(connectionStatus')
  /\ UNCHANGED <<pendingChangesCount, pendingCount, syncError>>
  /\ IF throws
     THEN wsProvider' = "null" /\ wsState' = "none" /\ updateListeners' = 0
     ELSE wsProvider' = "live" /\ wsState' = "connecting" /\ updateListeners' = 1

\* the first run of the effect
ProviderConnect(throws) ==
  /\ lifecycle = "created"
  /\ wsProvider = "null"
  /\ MountEffect(throws)
  /\ UNCHANGED <<reconnectTimeout, reconnectTimers, initialState, isOnline,
                 instances, localEdits>>
  /\ UNCHANGED <<serverVars, netVars, cfg, appVars, harnessVars>>

\* the socket opens: status connected
SocketOpen ==
  /\ wsProvider = "live"
  /\ wsState = "connecting"
  /\ wsState' = "open"
  /\ StatusHandler("connected", reconnectTimers)
  /\ UNCHANGED <<lifecycle, wsProvider, ydoc, initialState, isOnline, instances,
                 localEdits>>
  /\ UNCHANGED updateListeners
  /\ UNCHANGED <<serverVars, netVars, cfg, appVars, harnessVars>>

\* the attempt fails, or the open socket closes: status disconnected
SocketDown ==
  /\ wsProvider = "live"
  /\ wsState \in {"connecting", "open"}
  /\ wsState' = "none"
  /\ StatusHandler("disconnected", reconnectTimers)
  /\ UNCHANGED <<lifecycle, wsProvider, ydoc, initialState, isOnline, instances,
                 localEdits>>
  /\ UNCHANGED updateListeners
  /\ UNCHANGED <<serverVars, netVars, cfg, appVars, harnessVars>>

RemoveAt(s, i) == [j \in 1..(Len(s) - 1) |-> IF j < i THEN s[j] ELSE s[j + 1]]

\* a reconnect timer fires; wsProvider.connect() starts an attempt unless
\* one is under way
ReconnectTimerFire(i) ==
  /\ i \in 1..Len(reconnectTimers)
  /\ IF wsProvider = "live" /\ ~isConnected /\ wsState = "none"
     THEN /\ wsState' = "connecting"
          /\ StatusHandler("connecting", RemoveAt(reconnectTimers, i))
     ELSE /\ reconnectTimers' = RemoveAt(reconnectTimers, i)
          /\ callbacks' = <<>>
          /\ console' = <<>>
          /\ UNCHANGED <<wsState, isConnected, connectionStatus, reconnectAttempts,
                         reconnectTimeout, retries, queueVars>>
  /\ UNCHANGED <<lifecycle, wsProvider, ydoc, initialState, isOnline, instances,
                 localEdits>>
  /\ UNCHANGED updateListeners
  /\ UNCHANGED <<serverVars, netVars, cfg, appVars, harnessVars>>

\* clearTimeout(this.reconnectTimeout)
ClearHeld(ts) == SelectSeq(ts, LAMBDA t : ~t.held)
ClearReconnectTimeout ==
  IF reconnectTimeout = "handle" THEN ClearHeld(reconnectTimers) ELSE reconnectTimers

\* the document is closed: the effect's cleanup, destroy()
ProviderDestroy ==
  /\ lifecycle = "started"
  /\ lifecycle' = "destroyed"
  /\ reconnectTimers' = ClearReconnectTimeout
  /\ reconnectTimeout' = "null"
  /\ wsProvider' = "null"
  /\ wsState' = "none"
  /\ isConnected' = FALSE
  /\ callbacks' = <<>>
  /\ console' = <<>>
  /\ UNCHANGED <<reconnectAttempts, connectionStatus, retries, ydoc, initialState,
                 isOnline, instances, localEdits, queueVars>>
  /\ UNCHANGED updateListeners
  /\ UNCHANGED <<serverVars, netVars, cfg, appVars, harnessVars>>

\* the document's 'update' event: one onUpdate call per listener that
\* setupEventListeners has registered on it
UpdateReports == [i \in 1..updateListeners |-> UpdateReport]

\* the editor writes into the document it is bound to
LocalEdit ==
  /\ lifecycle = "started"
  /\ ydoc.sv[instances] < MaxClock
  /\ LET s == <<instances, ydoc.sv[instances]>>
     IN /\ ydoc' = Y_applyUpdate(ydoc, <<s>>)
        /\ localEdits' = localEdits \cup {s}
  /\ callbacks' = UpdateReports
  /\ console' = <<>>
  /\ UNCHANGED updateListeners
  \* the component's onUpdate and the hook's handleUpdate
  /\ pendingChangesCount' = IF wsProvider = "live" /\ ~isConnected
                            THEN pendingChangesCount + 1 ELSE pendingChangesCount
  /\ pendingCount' = IF isOffline THEN pendingCount + 1 ELSE pendingCount
  /\ UNCHANGED <<wasOfflineRef, isSyncing, syncError, syncTimeout>>
  /\ UNCHANGED <<lifecycle, wsProvider, wsState, isConnected, reconnectAttempts,
                 reconnectTimeout, reconnectTimers, connectionStatus, retries,
                 initialState, isOnline, instances>>
  /\ UNCHANGED <<serverVars, netVars, cfg, appVars, harnessVars>>

\* the browser goes offline or online: the dashboard's handleYjsUpdate is a
\* new function, so the component's effect is cleaned up (destroy()) and run
\* again with a new provider
OnlineChange(throws) ==
  /\ lifecycle = "started"
  /\ instances < MaxInstances
  /\ isOnline' = ~isOnline
  /\ instances' = instances + 1
  /\ reconnectTimers' = ClearReconnectTimeout
  /\ reconnectTimeout' = "null"
  /\ MountEffect(throws)
  /\ UNCHANGED <<initialState, localEdits>>
  /\ UNCHANGED <<serverVars, netVars, cfg, appVars, harnessVars>>

\* the settle timer of useOfflineQueue fires
SyncTimeoutFire ==
  /\ syncTimeout
  /\ syncTimeout' = FALSE
  /\ pendingCount' = 0
  /\ isSyncing' = FALSE
  /\ syncError' = ""
  /\ callbacks' = <<>>
  /\ console' = <<>>
  /\ UNCHANGED <<lifecycle, wsProvider, wsState, isConnected, reconnectAttempts,
                 reconnectTimeout, reconnectTimers, connectionStatus, retries,
                 ydoc, initialState, isOnline, instances, localEdits,
                 pendingChangesCount, wasOfflineRef>>
  /\ UNCHANGED updateListeners
  /\ UNCHANGED <<serverVars, netVars, cfg, appVars, harnessVars>>

\* a pending setTimeout callback of the client runs: 0 is the settle timer,
\* i > 0 the i-th pending reconnect timer
ClientTimers == (IF syncTimeout THEN {0} ELSE {}) \cup (1..Len(reconnectTimers))
ClientTimerFire(t) ==
  IF t = 0 THEN SyncTimeoutFire ELSE ReconnectTimerFire(t)

\* a queue that is emptied before the state is encoded
PendingAfterFailedSyncNone(n) == 0
\* pendingUpdatesRef is assigned after getEncodedState() has returned
PendingAfterFailedSync(n) == n

\* triggerSync(), with a getEncodedState() that may throw
triggerSync(throws) ==
  /\ lifecycle = "started"
  /\ ~isOffline
  /\ IF throws
     THEN /\ pendingCount' = PendingAfterFailedSync(pendingCount)
          /\ syncError' = "Sync failed"
     ELSE /\ pendingCount' = 0
          /\ syncError' = ""
  /\ isSyncing' = FALSE
  /\ callbacks' = <<>>
  /\ console' = <<>>
  /\ UNCHANGED <<lifecycle, wsProvider, wsState, isConnected, reconnectAttempts,
                 reconnectTimeout, reconnectTimers, connectionStatus, retries,
                 ydoc, initialState, isOnline, instances, localEdits,
                 pendingChangesCount, wasOfflineRef, syncTimeout>>
  /\ UNCHANGED updateListeners
  /\ UNCHANGED <<serverVars, netVars, cfg, appVars, harnessVars>>

NextProvider ==
  \/ \E throws \in BOOLEAN : ProviderConnect(throws)
  \/ SocketOpen
  \/ SocketDown
  \/ \E t \in ClientTimers : ClientTimerFire(t)
  \/ ProviderDestroy
  \/ LocalEdit
  \/ \E throws \in BOOLEAN : OnlineChange(throws)
  \/ \E throws \in BOOLEAN : triggerSync(throws)

InitProvider ==
  /\ InitServer
  /\ InitYjsProvider
  /\ InitApp
  /\ initialState \in BaseStates
  /\ InitHarnessIdle
  /\ cfg = [slow |-> {}, maxEvents |-> 0, deltas |-> {}, docs |-> {}, users |-> {}, frames |-> {}]

SpecProvider == InitProvider /\ [][NextProvider]_vars

\* timers are run and attempts end
SpecProviderFair ==
  /\ SpecProvider
  /\ WF_vars(\E throws \in BOOLEAN : ProviderConnect(throws))
  /\ WF_vars(wsState = "connecting" /\ (SocketOpen \/ SocketDown))
  /\ WF_vars(\E t \in ClientTimers : ClientTimerFire(t))

\* a step of handleDisconnect that arms a reconnect timer
SchedulesRetry == Len(reconnectTimers') > Len(reconnectTimers)
ArmedDelay == reconnectTimers'[Len(reconnectTimers')].delay
BackoffTable == <<1000, 2000, 4000, 8000, 16000, 30000, 30000, 30000, 30000, 30000>>
CappedDoubling(n) == IF 1000 * 2^(n - 1) < 30000 THEN 1000 * 2^(n - 1) ELSE 30000

\* C12 (backoff delays): the delay of the n-th consecutive reconnection
\* attempt, n = 1..10, is min(1000 * 2^(n-1), 30000) ms, i.e. 1000, 2000,
\* 4000, 8000, 16000 and then 30000 for attempts 6 to 10 -- as the function
\* computes it and as every armed timer carries it.
C12_DelayFunction ==
  \A n \in 1..Len(BackoffTable) :
    /\ ReconnectDelay(n - 1) = CappedDoubling(n)
    /\ ReconnectDelay(n - 1) = BackoffTable[n]
C12_ArmedDelay ==
  SchedulesRetry =>
    /\ reconnectAttempts' \in 1..Len(BackoffTable)
    /\ reconnectAttempts' = reconnectAttempts + 1
    /\ ArmedDelay = BackoffTable[reconnectAttempts']
    /\ ArmedDelay = CappedDoubling(reconnectAttempts')
C12_Backoff == [](C12_DelayFunction) /\ [][C12_ArmedDelay]_vars
\* the tenth retry is armed, with the capped delay
C12_Witness ==
  /\ reconnectAttempts = 10
  /\ \E i \in 1..Len(reconnectTimers) :
       reconnectTimers[i].held /\ reconnectTimers[i].delay = 30000

ReportsStatus(status) ==
  \E i \in 1..Len(callbacks') : callbacks'[i] = StatusReport(status)

\* C13 (attempt counter): the counter is always within 0..10, it is 0 right
\* after every report of connected (and for as long as the provider is
\* connected), and no more than 10 retries are scheduled since the last
\* connected status or the provider's creation.
C13_CounterRange ==
  /\ reconnectAttempts \in 0..10
  /\ retries \in 0..10
  /\ isConnected => reconnectAttempts = 0
C13_ResetOnConnected ==
  /\ ReportsStatus("connected") => reconnectAttempts' = 0 /\ retries' = 0
  /\ SchedulesRetry => retries' = retries + 1 /\ retries < 10
C13_Counter == [](C13_CounterRange) /\ [][C13_ResetOnConnected]_vars
\* ten retries since the last connected status; the tenth attempt is under way
C13_Witness ==
  /\ reconnectAttempts = 10 /\ retries = 10
  /\ wsState = "connecting" /\ connectionStatus = "connecting"

Settled ==
  /\ connectionStatus = "disconnected"
  /\ reconnectTimers = <<>>
  /\ wsState = "none"

\* C14 (termination of retrying): a retry is never scheduled once 10 have
\* been; and if no attempt ever succeeds, the provider ends up, for as long
\* as it is kept, in status disconnected with no attempt under way and no
\* reconnect timer pending.
C14_NoEleventh == SchedulesRetry => reconnectAttempts < 10 /\ retries < 10
ProviderEvents == {"onStatusChange", "onSynced", "onAwarenessChange", "onUpdate"}
\* the provider gives up in this state
GaveUp == console = <<MaxAttemptsLine>>

\* C15 (exhaustion is reported): when the provider enters disconnected with
\* the ceiling reached, its caller is handed a terminal error, something
\* other than the ordinary status report, through the event interface.
C15_TerminalError ==
  GaveUp =>
    \E i \in 1..Len(callbacks) :
      \/ callbacks[i].event \notin ProviderEvents
      \/ callbacks[i].event = "onStatusChange" /\ callbacks[i].arg = "error"

StatusTrail ==
  LET reported == [i \in 1..Len(callbacks') |-> callbacks'[i]]
      statuses == SelectSeq(reported, LAMBDA c : c.event = "onStatusChange")
      args == [i \in 1..Len(statuses) |-> statuses[i].arg]
  IN IF instances' # instances THEN <<"connecting">> \o args
     ELSE <<connectionStatus>> \o args
Follows(edges) ==
  \A i \in 1..(Len(StatusTrail) - 1) :
    \/ StatusTrail[i] = StatusTrail[i + 1]
    \/ <<StatusTrail[i], StatusTrail[i + 1]>> \in edges
SpecEdges == {<<"connecting", "connected">>, <<"connected", "disconnected">>,
              <<"disconnected", "connecting">>}

Holds(doc, s) == s[2] < doc.sv[s[1]]

\* C20 (local edits are kept): an edit the editor has written into its
\* replica is in the replica the editor is bound to, whatever happens to the
\* connection afterwards, for as long as the document is open.
C20_EditsKept ==
  lifecycle = "started" => \A s \in localEdits : Holds(ydoc, s)
-----------------------------------------------------------------------------
\* The offline reconciler (useOfflineQueue and the component's counter)

\* C21: whenever the provider is connected and the reconciler still counts
\* updates made while disconnected, the settle timer that zeroes the count
\* is pending; so a provider that was disconnected with a non-zero count and
\* then stays connected has its count zeroed when the window has elapsed.
C21_SettleArmed ==
  (connectionStatus = "connected" /\ pendingCount > 0) => syncTimeout


\* a step in which the reconciler records a resync error
RecordsSyncError == syncError' # syncError /\ syncError' # ""

\* C22: a resync attempt that throws records the error and changes neither
\* the content of the local replica nor the pending count.
C22_FailedSyncKeeps ==
  [][RecordsSyncError =>
       /\ syncError' = "Sync failed"
       /\ pendingCount' = pendingCount
       /\ ydoc' = ydoc
       /\ localEdits' = localEdits]_vars

\* an error is recorded while updates made offline are still counted and
\* the replica holds them
C22_Witness ==
  /\ syncError = "Sync failed"
  /\ pendingCount > 0
  /\ localEdits # {}
  /\ \A s \in localEdits : Holds(ydoc, s)

-----------------------------------------------------------------------------
\* One YjsDocumentProvider driven through its public methods: connect(),
\* disconnect(), connect() again, loadInitialState() and applyUpdate(), with
\* the WebsocketProvider setting its socket up again by itself after a close.

MaxConnects == 2
MaxPending == 2

\* connect(): nothing to do when a WebsocketProvider exists; the constructor
\* may throw; setupEventListeners registers one more 'update' listener
connect(throws) ==
  /\ lifecycle \in {"created", "started", "stopped"}
  /\ wsProvider = "null"
  /\ throws \/ updateListeners < MaxConnects
  /\ lifecycle' = "started"
  /\ callbacks' = ConnectReports(throws)
  /\ connectionStatus' = callbacks'[Len(callbacks')].arg
  /\ OfflineQueueEffect(connectionStatus')
  /\ console' = <<>>
  /\ IF throws
     THEN wsProvider' = "null" /\ wsState' = "none" /\ UNCHANGED updateListeners
     ELSE /\ wsProvider' = "live" /\ wsState' = "connecting"
          /\ updateListeners' = updateListeners + 1
  /\ UNCHANGED <<isConnected, reconnectAttempts, reconnectTimeout, reconnectTimers,
                 retries, ydoc, initialState, isOnline, instances, localEdits,
                 pendingChangesCount, pendingCount, syncError>>
  /\ UNCHANGED <<serverVars, netVars, cfg, appVars, harnessVars>>

\* disconnect(): the timer this.reconnectTimeout names is cleared, then the
\* WebsocketProvider is disconnected, destroyed and dropped.  Whether
\* wsProvider.disconnect() on an open socket emits 'disconnected' before it
\* returns depends on the version of y-websocket (emits)
disconnect(emits) ==
  /\ lifecycle = "started"
  /\ lifecycle' = "stopped"
  /\ wsProvider' = "null"
  /\ wsState' = "none"
  /\ IF emits /\ wsState = "open"
     THEN StatusHandler("disconnected", ClearReconnectTimeout)
     ELSE /\ reconnectTimers' = ClearReconnectTimeout
          /\ reconnectTimeout' = "null"
          /\ callbacks' = <<>>
          /\ console' = <<>>
          /\ UNCHANGED <<reconnectAttempts, connectionStatus, retries, queueVars>>
  /\ isConnected' = FALSE
  /\ UNCHANGED <<ydoc, initialState, isOnline, instances, localEdits,
                 updateListeners>>
  /\ UNCHANGED <<serverVars, netVars, cfg, appVars, harnessVars>>

\* the socket closes while no more than MaxPending - 1 timers are pending
SocketCloses ==
  /\ Len(reconnectTimers) < MaxPending
  /\ SocketDown

\* the WebsocketProvider sets its socket up again after a close, announcing
\* the attempt
LibraryRetry ==
  /\ wsProvider = "live"
  /\ wsState = "none"
  /\ wsState' = "connecting"
  /\ StatusHandler("connecting", reconnectTimers)
  /\ UNCHANGED <<lifecycle, wsProvider, ydoc, initialState, isOnline, instances,
                 localEdits, updateListeners>>
  /\ UNCHANGED <<serverVars, netVars, cfg, appVars, harnessVars>>

\* Y.applyUpdate(this.ydoc, bytes) and the document's 'update' event, which
\* is emitted when the transaction changed the document
MergeBytes(bytes) ==
  /\ lifecycle \in {"created", "started", "stopped"}
  /\ ydoc' = ProviderApply(ydoc, bytes)
  /\ callbacks' = IF ydoc' # ydoc THEN UpdateReports ELSE <<>>
  /\ console' = <<>>
  /\ UNCHANGED <<lifecycle, wsProvider, wsState, isConnected, reconnectAttempts,
                 reconnectTimeout, reconnectTimers, connectionStatus, retries,
                 initialState, isOnline, instances, localEdits, queueVars,
                 updateListeners>>
  /\ UNCHANGED <<serverVars, netVars, cfg, appVars, harnessVars>>

\* loadInitialState(state), as the component calls it before connect()
loadInitialState ==
  /\ wsProvider = "null"
  /\ MergeBytes(initialState)

RemoteBytes == {<<<<2, 0>>>>, <<<<2, 0>>, <<2, 1>>>>}

\* applyUpdate(update)
applyUpdate(update) ==
  /\ update \in RemoteBytes
  /\ MergeBytes(update)

\* an update of another participant arrives over the open socket
RemoteUpdate(update) ==
  /\ wsState = "open"
  /\ MergeBytes(update)

NextApi ==
  \/ \E throws \in BOOLEAN : connect(throws)
  \/ \E emits \in BOOLEAN : disconnect(emits)
  \/ SocketOpen
  \/ SocketCloses
  \/ LibraryRetry
  \/ \E i \in 1..Len(reconnectTimers) : ReconnectTimerFire(i)
  \/ loadInitialState
  \/ \E update \in RemoteBytes : applyUpdate(update)
  \/ \E update \in RemoteBytes : RemoteUpdate(update)
  \/ LocalEdit

SpecApi == InitProvider /\ [][NextApi]_vars

\* C23: after disconnect() has returned, and until connect() is called
\* again, no reconnect timer is pending.
C23_NoTimerAfterDisconnect ==
  lifecycle = "stopped" => reconnectTimers = <<>>

\* C26: every step that merges an update into the provider's document calls
\* onUpdate.
C26_UpdatesReported ==
  [][ydoc' # ydoc => \E i \in 1..Len(callbacks') : callbacks'[i] = UpdateReport]_vars

-----------------------------------------------------------------------------
\* Shutdown of the server

MaxEventsShutdown == 3
CLOSE_GOING_AWAY == 1001

\* the sockets held by the clients maps of the registered rooms
RoomMembers == UNION {MapValues(roomObjs[g].clients) : g \in Registered}

\* close(): the interval is cleared, every client of every registered room
\* is sent a close frame, every registered room's document destroyed, both
\* maps cleared and the listening socket closed
close ==
  /\ UNCHANGED <<cfg, appVars, harnessVars, providerVars, logged>>
  /\ AllDelivered
  /\ listening
  /\ listening' = FALSE
  /\ readyState' = [w \in Sockets |->
                      IF w \in RoomMembers THEN WsClose(readyState, w)[w]
                      ELSE readyState[w]]
  /\ closeCode' = [w \in Sockets |->
                     IF w \in RoomMembers
                     THEN WsCloseCode(closeCode, readyState, w, CLOSE_GOING_AWAY)[w]
                     ELSE closeCode[w]]
  /\ roomObjs' = [g \in 1..Len(roomObjs) |->
                    IF g \in Registered THEN [roomObjs[g] EXCEPT !.destroyed = TRUE]
                    ELSE roomObjs[g]]
  /\ rooms' = [d \in DocIds |-> 0]
  /\ clientToRoom' = [w \in Sockets |-> NoDocumentId]
  /\ UNCHANGED <<now, nextSweep, conn, timers, loads, events, netVars>>

\* shutdown scenarios: two documents, participants with equal and with
\* distinct ids
InitShutdown ==
  /\ InitServer
  /\ InitYjsProvider
  /\ InitApp
  /\ initialState = <<>>
  /\ InitHarnessIdle
  /\ cfg = [slow |-> {}, maxEvents |-> MaxEventsShutdown, deltas |-> {},
            docs |-> DocIds, users |-> Users,
            frames |-> {Frame("msg", UpdateMsg(<<<<1, 0>>>>))}]

NextShutdown ==
  \/ NextSockets
  \/ close

SpecShutdown == InitShutdown /\ [][NextShutdown]_vars

\* C24: close() sends every open connection a close frame with code 1001,
\* releases the document of every room, and leaves the registry empty; the
\* registry stays empty afterwards.
C24_Shutdown ==
  /\ [][listening /\ ~listening' =>
          /\ \A w \in Sockets :
               readyState[w] = "OPEN" =>
                 readyState'[w] = "CLOSING" /\ closeCode'[w] = CLOSE_GOING_AWAY
          /\ \A g \in Registered : roomObjs'[g].destroyed
          /\ \A d \in DocIds : rooms'[d] = 0]_vars
  /\ [](~listening => Registered = {})

-----------------------------------------------------------------------------
\* Faults while a message is fanned out

MaxEventsFault == 4
SendErrorLine == "Error handling message: send"

\* a fan-out that drops the recipient whose send failed
ClientsAfterSendFaultEvicted(cl, k) == SubSeq(cl, 1, k - 1) \o SubSeq(cl, k + 1, Len(cl))
\* the forEach loops have no handler of their own: the exception leaves the
\* clients map as it is and ends in the catch of handleMessage
ClientsAfterSendFault(cl, k) == cl

\* handleMessage for a message whose fan-out throws at the k-th entry of
\* room.clients: the entries before it have been sent to, the rest are not
\* reached, and the catch of handleMessage logs the error
FanOutFault(ws, k) ==
  /\ UNCHANGED <<cfg, appVars, harnessVars, providerVars, listening>>
  /\ AllDelivered
  /\ inq[ws] # <<>>
  /\ readyState[ws] \in {"OPEN", "CLOSING"}
  /\ conn[ws] # NoConn
  /\ LET f == NextFrame(inq[ws])
         m == f.m
         g == conn[ws].room
         cl == roomObjs[g].clients
         userId == conn[ws].userId
         seen == [conn EXCEPT ![ws].lastSeen = now, ![ws].heard = now]
         active == [roomObjs EXCEPT ![g].lastActivity = now,
                                    ![g].clients = ClientsAfterSendFault(cl, k)]
         before == SubSeq(cl, 1, k - 1)
     IN /\ f.t = "msg"
        /\ k \in 1..Len(cl)
        /\ readyState[cl[k][2]] = "OPEN"
        /\ inq' = [inq EXCEPT ![ws] = RestFrames(@, f)]
        /\ CASE Dispatch(m) = "update" ->
                  /\ UpdateOutcome(m) = "merge"
                  /\ cl[k][1] # userId
                  /\ conn' = seen
                  /\ roomObjs' = [active EXCEPT ![g].doc = RoomMerge(@, m.data)]
                  /\ outbox' = SendToOthers(outbox, before, readyState, userId, m)
             [] Dispatch(m) = "awareness" ->
                  LET cn == [seen EXCEPT
                               ![ws].userName = IF m.userName # "" THEN m.userName ELSE @,
                               ![ws].userColor = IF m.userColor # "" THEN m.userColor ELSE @]
                  IN /\ conn' = cn
                     /\ roomObjs' = active
                     /\ outbox' = SendToAll(outbox, before, readyState,
                                            PresenceMsg("awareness", userId,
                                                        getPresenceList(cl, cn)))
             [] Dispatch(m) = "cursor" ->
                  LET cn == [seen EXCEPT ![ws].cursor = m.cursor]
                  IN /\ cl[k][1] # userId
                     /\ conn' = cn
                     /\ roomObjs' = active
                     /\ outbox' = SendToOthers(outbox, before, readyState, userId,
                                               CursorMsg(cn[ws]))
             [] OTHER -> FALSE
        /\ logged' = logged \cup {SendErrorLine}
        /\ UNCHANGED <<now, nextSweep, rooms, clientToRoom, readyState, closeCode,
                       timers, loads, events, replica, observed, sentCount>>

\* fault scenarios: two documents, updates that apply and updates that do
\* not, frames that are not JSON, presence updates
InitFault ==
  /\ InitServer
  /\ InitYjsProvider
  /\ InitApp
  /\ initialState = <<>>
  /\ InitHarnessIdle
  /\ cfg = [slow |-> {}, maxEvents |-> MaxEventsFault, deltas |-> {},
            docs |-> DocIds, users |-> {NoUserId},
            frames |-> {Frame("msg", UpdateMsg(<<<<1, 0>>>>)),
                        Frame("msg", UpdateMsg(CorruptBytes)),
                        Frame("msg", [NoMsg EXCEPT !.type = "awareness",
                                                   !.userName = "Bob"]),
                        Frame("bad", NoMsg)}]

NextFault ==
  \/ NextSockets
  \/ \E ws \in Sockets : \E k \in 1..MaxEventsFault : FanOutFault(ws, k)

SpecFault == InitFault /\ [][NextFault]_vars

\* the message is one the server sends on
Forwarded(m) ==
  \/ m.type = "update" /\ UpdateOutcome(m) = "merge"
  \/ m.type \in {"awareness", "cursor"}
\* W is a connection the message taken from S is due to be sent to
Recipient(S, W) ==
  LET cl == roomObjs[conn[S].room].clients
  IN /\ readyState[W] = "OPEN"
     /\ \E i \in 1..Len(cl) :
          /\ cl[i][2] = W
          /\ Head(inq[S]).m.type = "awareness" \/ cl[i][1] # conn[S].userId
\* the server takes a frame of S and the fan-out fails before W is sent to
TakesSendFault(S) ==
  /\ TakesFrame(S)
  /\ Head(inq[S]).t = "msg"
  /\ Forwarded(Head(inq[S]).m)
  /\ \E W \in Sockets : Recipient(S, W) /\ outbox'[W] = outbox[W]
\* a parse error, a merge failure or a failed send while S's frame is handled
Fault(S) ==
  \/ TakesFrame(S) /\ Head(inq[S]).t = "bad"
  \/ TakesFailingUpdate(S)
  \/ TakesSendFault(S)

\* every other connection stays registered and open, and every other room
\* is what it was
OthersUntouched(S) ==
  /\ \A W \in Sockets \ {S} :
       /\ readyState'[W] = readyState[W]
       /\ closeCode'[W] = closeCode[W]
       /\ conn'[W] = conn[W]
       /\ clientToRoom'[W] = clientToRoom[W]
  /\ rooms' = rooms
  /\ Len(roomObjs') = Len(roomObjs)
  /\ \A g \in 1..Len(roomObjs) :
       /\ roomObjs'[g].clients = roomObjs[g].clients
       /\ g # conn[S].room => roomObjs'[g] = roomObjs[g]

FaultLines == {ParseErrorLine, UpdateErrorLine, SendErrorLine}

\* C25: a parse error, a merge failure or a failed send while one
\* connection's message is handled leaves every other connection registered
\* and open and every other room unchanged; after a fault the server still
\* takes the next frame of any registered connection.
C25_StillServes ==
  \A W \in Sockets :
     (/\ logged \cap FaultLines # {}
      /\ conn[W] # NoConn
      /\ readyState[W] = "OPEN"
      /\ inq[W] # <<>>
      /\ AllDelivered)
     => ENABLED ServerMessage(W)
C25_ErrorIsolation ==
  /\ [](C25_StillServes)
  /\ [][\A S \in Sockets : Fault(S) => OthersUntouched(S)]_vars
\* the send to B failed while S's update was fanned out: the update is in
\* the room's document, B was sent nothing and is still registered and open,
\* and a second room is registered with its own participant
C25_Witness ==
  \E S \in Sockets : \E B \in Sockets : \E C \in Sockets :
     /\ logged = {SendErrorLine}
     /\ readyState[S] = "OPEN" /\ readyState[B] = "OPEN" /\ readyState[C] = "OPEN"
     /\ conn[S] # NoConn /\ conn[B] # NoConn /\ conn[C] # NoConn
     /\ conn[S].room = conn[B].room /\ conn[C].room # conn[S].room
     /\ InRoom(S, conn[S].room) /\ InRoom(B, conn[S].room) /\ InRoom(C, conn[C].room)
     /\ sentCount[S] = 1 /\ inq[S] = <<>>
     /\ roomObjs[conn[S].room].doc # NewDoc
     /\ roomObjs[conn[C].room].doc = NewDoc
     /\ observed[B] = <<>>

-----------------------------------------------------------------------------
\* A receiver that does not keep up

MaxEventsSlow == 5
\* a limit on the messages queued for one connection; the model is checked
\* against it, the server has none
SendBufferLimit == 4

\* socket 1 joins and stops reading; the others go on
InitSlow ==
  /\ InitServer
  /\ InitYjsProvider
  /\ InitApp
  /\ initialState = <<>>
  /\ InitHarnessIdle
  /\ cfg = [slow |-> {1}, maxEvents |-> MaxEventsSlow, deltas |-> {},
            docs |-> {"d1"}, users |-> {NoUserId},
            frames |-> {Frame("msg", UpdateMsg(<<<<1, 0>>>>)),
                        Frame("msg", [NoMsg EXCEPT !.type = "awareness",
                                                   !.userName = "Bob"])}]

SpecSlow == InitSlow /\ [][NextSockets]_vars

\* C27: the messages queued for a connection that is still open never exceed
\* the limit of its send buffer: a receiver that would overflow it is dropped.
C27_BoundedBuffer ==
  \A w \in Sockets : readyState[w] = "OPEN" => Len(outbox[w]) <= SendBufferLimit

-----------------------------------------------------------------------------
\* Snapshots of the document state (lib/actions/collaboration.ts)

MaxEventsSnapshot == 4
SNAPSHOT_INTERVAL == 30000

\* Date.now() of the process that runs the server actions: model time 0 is a
\* moment at which the clock reads at least one interval
Date_now == SNAPSHOT_INTERVAL + now

routeVars == <<request, response>>
dashboardVars == <<offlineQueueRef, queueRun, persisted, everQueued, toasts>>
appServerIdle == <<nextSweep, rooms, roomObjs, conn, clientToRoom, readyState,
                   closeCode, timers, loads, logged, listening>>

\* saveYjsStateWithSnapshot(documentId, state, force) up to its await: the
\* call returns saved: false at once, or goes on to saveYjsState
saveYjsStateWithSnapshot(documentId, force) ==
  /\ MayAct
  /\ events' = events + 1
  /\ LET lastSnapshot == lastSnapshotTimes[documentId]
     IN IF ~force /\ Date_now - lastSnapshot < SNAPSHOT_INTERVAL
        THEN UNCHANGED saveCalls
        ELSE saveCalls' = saveCalls \cup
               {[documentId |-> documentId, now |-> Date_now, force |-> force,
                 id |-> events]}
  /\ UNCHANGED <<now, appServerIdle, lastSnapshotTimes, dbWrites, dashboardVars, routeVars>>
  /\ UNCHANGED <<netVars, cfg, harnessVars, providerVars>>

\* saveYjsState settles and the call goes on after its await: on success the
\* database holds the state and the call's own 'now' becomes the time of the
\* last snapshot
saveYjsStateSettles(call, success) ==
  /\ call \in saveCalls
  /\ saveCalls' = saveCalls \ {call}
  /\ IF success
     THEN /\ dbWrites' = Append(dbWrites, [documentId |-> call.documentId,
                                           called |-> call.now, at |-> Date_now,
                                           force |-> call.force])
          /\ lastSnapshotTimes' = [lastSnapshotTimes EXCEPT ![call.documentId] = call.now]
     ELSE UNCHANGED <<dbWrites, lastSnapshotTimes>>
  /\ UNCHANGED <<dashboardVars, routeVars>>
  /\ UNCHANGED <<serverVars, netVars, cfg, harnessVars, providerVars>>

\* time passes
ClockAdvance(d) ==
  /\ MayAct
  /\ d \in cfg.deltas
  /\ events' = events + 1
  /\ now' = now + d
  /\ UNCHANGED <<appServerIdle, appVars>>
  /\ UNCHANGED <<netVars, cfg, harnessVars, providerVars>>

InitSnapshot ==
  /\ InitServer
  /\ InitYjsProvider
  /\ InitApp
  /\ initialState = <<>>
  /\ InitHarnessIdle
  /\ cfg = [slow |-> {}, maxEvents |-> MaxEventsSnapshot,
            deltas |-> {1, SNAPSHOT_INTERVAL - 1, SNAPSHOT_INTERVAL},
            docs |-> DocIds, users |-> {}, frames |-> {}]

NextSnapshot ==
  \/ \E d \in cfg.docs : \E force \in BOOLEAN : saveYjsStateWithSnapshot(d, force)
  \/ \E call \in saveCalls : \E success \in BOOLEAN : saveYjsStateSettles(call, success)
  \/ \E d \in cfg.deltas : ClockAdvance(d)

SpecSnapshot == InitSnapshot /\ [][NextSnapshot]_vars

\* C28: two writes that calls without force made for one document were
\* called at least 30000 ms apart.
C28_Throttle ==
  \A i \in 1..Len(dbWrites) : \A j \in 1..Len(dbWrites) :
     (/\ i < j
      /\ dbWrites[i].documentId = dbWrites[j].documentId
      /\ ~dbWrites[i].force /\ ~dbWrites[j].force)
     => \/ dbWrites[j].called - dbWrites[i].called >= SNAPSHOT_INTERVAL
        \/ dbWrites[i].called - dbWrites[j].called >= SNAPSHOT_INTERVAL

-----------------------------------------------------------------------------
\* The dashboard's offline save queue (app/dashboard/dashboard-client.tsx)

MaxEventsQueue == 5

snapshotVars == <<lastSnapshotTimes, saveCalls, dbWrites>>
providerIdle == <<lifecycle, wsProvider, wsState, isConnected, reconnectAttempts,
                  reconnectTimeout, reconnectTimers, connectionStatus, callbacks,
                  console, retries, ydoc, initialState, instances, localEdits,
                  queueVars, updateListeners>>

\* window 'offline'
handleOffline ==
  /\ MayAct
  /\ events' = events + 1
  /\ isOnline
  /\ isOnline' = FALSE
  /\ toasts' = Append(toasts, "You're offline")
  /\ UNCHANGED <<offlineQueueRef, queueRun, persisted, everQueued>>
  /\ UNCHANGED <<now, appServerIdle, snapshotVars, providerIdle, routeVars>>
  /\ UNCHANGED <<netVars, cfg, harnessVars>>

\* the save timer of handleContentUpdate fires while the browser is offline:
\* the state is put on the queue
QueueChange(documentId) ==
  /\ MayAct
  /\ events' = events + 1
  /\ ~isOnline
  /\ LET item == [documentId |-> documentId, state |-> Cardinality(everQueued) + 1]
     IN /\ offlineQueueRef' = Append(offlineQueueRef, item)
        /\ everQueued' = everQueued \cup {item}
  /\ UNCHANGED <<queueRun, persisted, toasts, isOnline>>
  /\ UNCHANGED <<now, appServerIdle, snapshotVars, providerIdle, routeVars>>
  /\ UNCHANGED <<netVars, cfg, harnessVars>>

\* window 'online': processOfflineQueue() is called when the queue holds
\* items; it copies the queue and empties it before its first await
handleOnline ==
  /\ MayAct
  /\ events' = events + 1
  /\ ~isOnline
  /\ ~queueRun.active
  /\ isOnline' = TRUE
  /\ IF Len(offlineQueueRef) > 0
     THEN /\ toasts' = Append(toasts, "Back online")
          /\ queueRun' = [active |-> TRUE, queue |-> offlineQueueRef]
          /\ offlineQueueRef' = <<>>
     ELSE UNCHANGED <<toasts, queueRun, offlineQueueRef>>
  /\ UNCHANGED <<persisted, everQueued>>
  /\ UNCHANGED <<now, appServerIdle, snapshotVars, providerIdle, routeVars>>
  /\ UNCHANGED <<netVars, cfg, harnessVars>>

\* what updateDocument comes to: the document is saved (success: true), it
\* is not and the result says so (success: false), or the call is rejected
UpdateOutcomes == {"saved", "refused", "rejected"}

\* only the catch of processOfflineQueue puts an item back
Requeued(outcome) == outcome = "rejected"

\* one turn of the loop of processOfflineQueue: the await of updateDocument
\* for the next item settles; after the last item the toast is decided
ProcessItem(outcome) ==
  /\ queueRun.active
  /\ LET item == Head(queueRun.queue)
         rest == Tail(queueRun.queue)
         left == IF Requeued(outcome) THEN Append(offlineQueueRef, item)
                 ELSE offlineQueueRef
     IN /\ persisted' = IF outcome = "saved" THEN persisted \cup {item} ELSE persisted
        /\ offlineQueueRef' = left
        /\ queueRun' = [active |-> rest # <<>>, queue |-> rest]
        /\ toasts' = IF rest = <<>> /\ Len(left) = 0
                     THEN Append(toasts, "Synced") ELSE toasts
  /\ UNCHANGED <<everQueued, isOnline>>
  /\ UNCHANGED <<serverVars, snapshotVars, providerIdle, routeVars>>
  /\ UNCHANGED <<netVars, cfg, harnessVars>>

InitQueue ==
  /\ InitServer
  /\ InitYjsProvider
  /\ InitApp
  /\ initialState = <<>>
  /\ InitHarnessIdle
  /\ cfg = [slow |-> {}, maxEvents |-> MaxEventsQueue, deltas |-> {},
            docs |-> {"d1"}, users |-> {}, frames |-> {}]

NextQueue ==
  \/ handleOffline
  \/ \E d \in cfg.docs : QueueChange(d)
  \/ handleOnline
  \/ \E outcome \in UpdateOutcomes : ProcessItem(outcome)

SpecQueue == InitQueue /\ [][NextQueue]_vars

\* the toast 'Synced: All changes saved.' is shown in this step
ReportsSynced == Len(toasts') > Len(toasts) /\ toasts'[Len(toasts')] = "Synced"

\* C29: when no run of processOfflineQueue is under way, every item that was
\* queued has been saved or is in the queue; and 'Synced' is shown only when
\* every queued item has been saved.
C29_NothingDropped ==
  ~queueRun.active =>
     \A item \in everQueued :
        item \in persisted \/ \E i \in 1..Len(offlineQueueRef) : offlineQueueRef[i] = item
C29_QueueSynced ==
  /\ [](C29_NothingDropped)
  /\ [][ReportsSynced => everQueued \subseteq persisted']_vars

-----------------------------------------------------------------------------
\* The route guard (middleware.ts, its later version with the edge
\* configuration, and the copy of its logic the property test uses)

MaxPath == 4

\* A pathname is a sequence of pieces; no piece is the beginning of another,
\* so one pathname starts with another exactly when its pieces do.  "x"
\* stands for any other characters.  None of these pathnames is excluded by
\* config.matcher.
PathPieces == {"/", "sign-in", "sign-up", "api", "auth", "x"}
Pathnames ==
  {p \in UNION {[1..n -> PathPieces] : n \in 1..MaxPath} : p[1] = "/"}

publicRoutes == {<<"/", "sign-in">>, <<"/", "api", "/", "auth">>}
authRoutes == {<<"/", "sign-in">>}
publicRoutesEdge ==
  {<<"/", "sign-in">>, <<"/", "sign-up">>, <<"/", "api", "/", "auth">>, <<"/">>}
authRoutesEdge == {<<"/", "sign-in">>, <<"/", "sign-up">>}

\* pathname.startsWith(route)
startsWith(pathname, route) ==
  /\ Len(route) <= Len(pathname)
  /\ \A i \in 1..Len(route) : pathname[i] = route[i]

NoResponse == [by |-> "none", shouldRedirect |-> FALSE, redirectTo |-> <<>>]
SignInUrl == <<"/", "sign-in">>

\* the copy of the logic in the property test
determineRedirectBehavior(pathname, isLoggedIn) ==
  LET isPublicRoute == \E route \in publicRoutes : startsWith(pathname, route)
      isAuthRoute == \E route \in authRoutes : startsWith(pathname, route)
  IN IF isLoggedIn /\ isAuthRoute
     THEN [shouldRedirect |-> TRUE, redirectTo |-> <<"/">>]
     ELSE IF isPublicRoute
     THEN [shouldRedirect |-> FALSE, redirectTo |-> <<>>]
     ELSE IF ~isLoggedIn
     THEN [shouldRedirect |-> TRUE, redirectTo |-> SignInUrl]
     ELSE [shouldRedirect |-> FALSE, redirectTo |-> <<>>]

\* a request comes in
Request(pathname, isLoggedIn) ==
  /\ request.pathname = <<>>
  /\ request' = [pathname |-> pathname, isLoggedIn |-> isLoggedIn]
  /\ response' = NoResponse
  /\ UNCHANGED <<snapshotVars, dashboardVars>>
  /\ UNCHANGED <<serverVars, netVars, cfg, harnessVars, providerVars>>

Answer(by, shouldRedirect, redirectTo) ==
  /\ response' = [by |-> by, shouldRedirect |-> shouldRedirect,
                  redirectTo |-> redirectTo]
  /\ UNCHANGED <<request, snapshotVars, dashboardVars>>
  /\ UNCHANGED <<serverVars, netVars, cfg, harnessVars, providerVars>>

Unanswered == request.pathname # <<>> /\ response.by = "none"

\* middleware.ts
middleware ==
  /\ Unanswered
  /\ LET pathname == request.pathname
         isLoggedIn == request.isLoggedIn
         isPublicRoute == \E route \in publicRoutes : startsWith(pathname, route)
         isAuthRoute == \E route \in authRoutes : startsWith(pathname, route)
     IN IF isLoggedIn /\ isAuthRoute
        THEN Answer("middleware", TRUE, <<"/">>)
        ELSE IF isPublicRoute
        THEN Answer("middleware", FALSE, <<>>)
        ELSE IF ~isLoggedIn
        THEN Answer("middleware", TRUE, SignInUrl)
        ELSE Answer("middleware", FALSE, <<>>)

\* the middleware built on authConfigEdge
middlewareEdge ==
  /\ Unanswered
  /\ LET pathname == request.pathname
         isLoggedIn == request.isLoggedIn
         isPublicRoute ==
           \E route \in publicRoutesEdge :
              pathname = route \/ startsWith(pathname, route \o <<"/">>)
         isAuthRoute == \E route \in authRoutesEdge : startsWith(pathname, route)
     IN IF isLoggedIn /\ isAuthRoute
        THEN Answer("middlewareEdge", TRUE, <<"/", "dashboard">>)
        ELSE IF isPublicRoute
        THEN Answer("middlewareEdge", FALSE, <<>>)
        ELSE IF ~isLoggedIn
        THEN Answer("middlewareEdge", TRUE, SignInUrl)
        ELSE Answer("middlewareEdge", FALSE, <<>>)

\* the property test applies its copy
Property1 ==
  /\ Unanswered
  /\ LET result == determineRedirectBehavior(request.pathname, request.isLoggedIn)
     IN Answer("test", result.shouldRedirect, result.redirectTo)

InitRoutes ==
  /\ InitServer
  /\ InitYjsProvider
  /\ InitApp
  /\ initialState = <<>>
  /\ InitHarnessIdle
  /\ cfg = [slow |-> {}, maxEvents |-> 0, deltas |-> {},
            docs |-> {}, users |-> {}, frames |-> {}]

NextRoutes ==
  \/ \E pathname \in Pathnames, isLoggedIn \in BOOLEAN : Request(pathname, isLoggedIn)
  \/ middleware
  \/ middlewareEdge
  \/ Property1

SpecRoutes == InitRoutes /\ [][NextRoutes]_vars

\* the route lists and the dashboard of the file that answered
PublicRoutesOf(by) == IF by = "middlewareEdge" THEN publicRoutesEdge ELSE publicRoutes
AuthRoutesOf(by) == IF by = "middlewareEdge" THEN authRoutesEdge ELSE authRoutes
DashboardOf(by) == IF by = "middlewareEdge" THEN <<"/", "dashboard">> ELSE <<"/">>
Under(pathname, routes) == \E route \in routes : startsWith(pathname, route)
LetThrough == ~response.shouldRedirect
RedirectedTo(url) == response.shouldRedirect /\ response.redirectTo = url

\* C30: a request whose path is under no public route prefix is redirected
\* to /sign-in when it has no session and let through when it has one; a
\* request whose path is under an auth route is redirected to the dashboard
\* when it has a session and let through when it has none.
C30_AccessRedirect ==
  response.by # "none" =>
    /\ ~Under(request.pathname, PublicRoutesOf(response.by)) =>
          IF request.isLoggedIn THEN LetThrough ELSE RedirectedTo(SignInUrl)
    /\ Under(request.pathname, AuthRoutesOf(response.by)) =>
          IF request.isLoggedIn THEN RedirectedTo(DashboardOf(response.by))
          ELSE LetThrough

\* the same for the answers of middleware.ts and of the test's copy only
C30_FirstVersion == response.by \in {"middleware", "test"} => C30_AccessRedirect

-----------------------------------------------------------------------------
\* What a new connection is sent first (handleConnection, sendInitialSync)

\* socket w is admitted to a room in this step
Joins(w) == readyState[w] = "NEW" /\ readyState'[w] = "OPEN"
\* the document of the room of d as it is before the step
DocAtJoining(d) == IF rooms[d] = 0 THEN NewDoc ELSE roomObjs[rooms[d]].doc
\* a message of sendInitialSync, not a broadcast and not a forwarded message
IsInitial(m) == m.type = "sync" \/ (m.type = "awareness" /\ m.action = "")
\* nothing has been sent on a socket before its handshake
NothingBeforeHandshake ==
  \A w \in Sockets : readyState[w] = "NEW" => outbox[w] = <<>> /\ observed[w] = <<>>
FirstTwoAtJoining ==
  \A w \in Sockets : Joins(w) =>
     LET sent == outbox'[w]
         g == rooms'[clientToRoom'[w]]
     IN /\ Len(sent) >= 2
        /\ sent[1] = SyncMsg(Y_encodeStateAsUpdate(DocAtJoining(clientToRoom'[w])))
        /\ sent[2].type = "awareness" /\ sent[2].action = ""
        /\ sent[2].list = getPresenceList(roomObjs'[g].clients, conn')
        /\ \A i \in 3..Len(sent) : ~IsInitial(sent[i])

\* C31: the first two messages sent on a connection that joins a room are
\* the sync message with the room's document state at the moment of joining
\* and then the awareness message with the room's presence list; nothing is
\* sent on the socket before them, and every broadcast or forwarded message
\* comes after them.
C31_InitialSync ==
  /\ [](NothingBeforeHandshake)
  /\ [][FirstTwoAtJoining]_vars
\* a socket has just joined a room with a loaded document and a member: it
\* holds the sync, the list of both members and the join broadcast
C31_Witness ==
  \E w \in Sockets :
     /\ readyState[w] = "OPEN" /\ Len(outbox[w]) = 3
     /\ outbox[w][1].type = "sync" /\ outbox[w][1].data # B64Encode(<<>>)
     /\ Len(outbox[w][2].list) = 2
     /\ outbox[w][3].action = "join"

-----------------------------------------------------------------------------
\* lastSeen and the sweeper (handleMessage, cleanupStalePresence)

MaxEventsStale == 4

\* one participant whose frames are an update, a message of an unknown type
\* and a frame that is not JSON; time steps of one interval and of the timeout
InitStale ==
  /\ InitServer
  /\ InitYjsProvider
  /\ InitApp
  /\ initialState = <<>>
  /\ InitHarnessIdle
  /\ cfg = [slow |-> {}, maxEvents |-> MaxEventsStale,
            deltas |-> {SWEEP_INTERVAL, PRESENCE_TIMEOUT},
            docs |-> {"d1"}, users |-> {"u1"},
            frames |-> {Frame("msg", UpdateMsg(<<<<1, 0>>>>)),
                        Frame("msg", [NoMsg EXCEPT !.type = "sync"]),
                        Frame("bad", NoMsg)}]

NextStale ==
  \/ NextSockets
  \/ Sweep
  \/ \E d \in {SWEEP_INTERVAL, PRESENCE_TIMEOUT} : Tick(d)

SpecStale == InitStale /\ [][NextStale]_vars

\* the sweeper closes socket w in this step
Evicts(w) == closeCode'[w] = CLOSE_TIMEOUT /\ closeCode[w] # CLOSE_TIMEOUT

RefreshesLastSeen ==
  \A S \in Sockets : TakesFrame(S) => conn'[S].lastSeen = now
EvictsOnlySilent ==
  \A w \in Sockets : Evicts(w) => now - conn[w].heard >= PRESENCE_TIMEOUT

\* C32: handling an inbound frame of a connection, whatever it holds, sets
\* the connection's lastSeen to the current time; and the sweeper closes a
\* connection only when no frame of it was handled in the 5000 ms before.
C32_Refresh == [][RefreshesLastSeen /\ EvictsOnlySilent]_vars
\* the second half alone
C32_EvictsOnlySilent == [][EvictsOnlySilent]_vars

-----------------------------------------------------------------------------
\* Cursor messages (handleCursor)

\* the server handles a cursor message of socket S in this step
TakesCursor(S) ==
  /\ Handles(S)
  /\ Head(inq[S]).t = "msg"
  /\ Head(inq[S]).m.type = "cursor"
\* the cursor message about S's participant with the cursor S sent
CursorOf(S) ==
  [NoMsg EXCEPT !.type = "cursor", !.userId = conn[S].userId,
                !.userName = conn[S].userName, !.userColor = conn[S].userColor,
                !.cursor = Head(inq[S]).m.cursor]
DocsUnchanged ==
  /\ Len(roomObjs') = Len(roomObjs)
  /\ \A g \in 1..Len(roomObjs) : roomObjs'[g].doc = roomObjs[g].doc
CursorHandled(S) ==
  /\ conn'[S].cursor = Head(inq[S]).m.cursor
  /\ DocsUnchanged
  /\ \A w \in Sockets :
        outbox'[w] = IF w # S /\ InRoom(w, conn[S].room) /\ readyState[w] = "OPEN"
                     THEN <<CursorOf(S)>> ELSE <<>>
\* no other socket of S's room was registered with S's participant id
OnlyOneWithId(S) ==
  \A w \in Sockets \ {S} :
     (conn[w] # NoConn /\ conn[w].room = conn[S].room) => conn[w].userId # conn[S].userId

\* C33: handling a cursor message stores the cursor on the sender's
\* connection, sends one cursor message with the sender's participant id
\* and that cursor to every other connection registered in the room whose
\* socket is open, sends nothing to the sender or to anybody else, and
\* changes no room document.
C33_Cursor == [][\A S \in Sockets : TakesCursor(S) => CursorHandled(S)]_vars
\* the same where the sender's participant id is used by one socket only
C33_DistinctIds ==
  [][\A S \in Sockets : (TakesCursor(S) /\ OnlyOneWithId(S)) => CursorHandled(S)]_vars

-----------------------------------------------------------------------------
\* Whose entry a departure removes (handleDisconnection, cleanupStalePresence)

\* socket w is in the clients map of room object g after the step
InRoomAfter(w, g) == w \in MapValues(roomObjs'[g].clients)
\* socket w leaves the clients map of its room in this step
Unregistered(w) ==
  \E g \in 1..Len(roomObjs) : InRoom(w, g) /\ ~InRoomAfter(w, g)
\* socket w is closed, fails or is evicted in this step
Departs(w) == readyState[w] = "OPEN" /\ readyState'[w] # "OPEN"
\* the 'close' event of socket w is handled in this step
Closes(w) == readyState[w] = "CLOSING" /\ readyState'[w] = "CLOSED"

\* C34: a step in which a socket is closed, fails or is evicted removes
\* from the room only the connection of that socket: a connection
\* registered on another socket stays registered.
C34_OnlyOwnEntry ==
  [][(\E S \in Sockets : Departs(S) \/ Closes(S)) =>
        \A w \in Sockets : Unregistered(w) => (Departs(w) \/ Closes(w))]_vars

-----------------------------------------------------------------------------
\* clientToRoom and the clients maps (handleConnection, handleDisconnection)

\* C35: a socket is mapped in clientToRoom to document d exactly when it is
\* the socket of an entry of the clients map of d's registered room.
C35_NoOrphans ==
  \A w \in Sockets : \A d \in DocIds :
     clientToRoom[w] = d <=> (rooms[d] # 0 /\ InRoom(w, rooms[d]))

-----------------------------------------------------------------------------
\* One leave per departure (close and error handlers, cleanupStalePresence)

\* the connection of socket w has already been taken out of its room, by the
\* error handler or by the sweeper
AlreadyGone(w) == conn[w] # NoConn /\ clientToRoom[w] = NoDocumentId

\* C36: the close event of a socket whose connection has already been taken
\* out of its room, after a socket error or an eviction, sends nothing and
\* arms no destroy timer.
C36_OneLeave ==
  [][\A w \in Sockets : (Closes(w) /\ AlreadyGone(w)) =>
        outbox' = outbox /\ timers' = timers]_vars
\* the first half alone: no second leave update
C36_NoSecondBroadcast ==
  [][\A w \in Sockets : (Closes(w) /\ AlreadyGone(w)) => outbox' = outbox]_vars

-----------------------------------------------------------------------------
\* Frames of a connection that is no longer in its room (message handler)

\* C37: a frame handled on a socket whose connection has already been taken
\* out of its room changes no room document and is sent to nobody.
C37_GoneIsSilent ==
  [][\A w \in Sockets : (TakesFrame(w) /\ AlreadyGone(w)) =>
        DocsUnchanged /\ NothingSent]_vars

-----------------------------------------------------------------------------
\* Rooms without connections (loadDocumentState, cleanupStalePresence)

HasPendingTimer(g) == \E i \in PendingTimers : timers[i].room = g

\* C38: every registered room has a connection in its clients map or a
\* destroy timer that has not run yet.
C38_NoRoomLeak ==
  \A g \in Registered : Len(roomObjs[g].clients) > 0 \/ HasPendingTimer(g)
\* the same for rooms no loadDocumentState call has touched
C38_NoLeakByEviction == loads = 0 => C38_NoRoomLeak

-----------------------------------------------------------------------------
\* Pending reconnect timers (handleDisconnect)

\* C39: at most one reconnect timer of the provider is pending.
C39_OneTimer == Len(reconnectTimers) <= 1

-----------------------------------------------------------------------------
\* Update listeners over connect() and disconnect() (setupEventListeners)

\* calls of onUpdate made during the step
UpdateCalls == {i \in 1..Len(callbacks') : callbacks'[i] = UpdateReport}

\* C40: a step that merges an update into the provider's document calls
\* onUpdate at most once.
C40_ReportedOnce == [][ydoc' # ydoc => Cardinality(UpdateCalls) <= 1]_vars

====
